---------------------------- MODULE Spec2Model ----------------------------
(***************************************************************************)
(* Piece index and announcement core of boost:                             *)
(*   - the LevelDB local index directory (extern/boostd-data/ldb/db.go),   *)
(*   - the index-provider wrapper (indexprovider/wrapper.go): dagstore     *)
(*     shard migration and indexer announcements,                          *)
(*   - the piece doctor's scan (DB.NextPiecesToCheck).                      *)
(* Each subsystem has its own specification over the shared variables.     *)
(***************************************************************************)
EXTENDS Integers, Sequences, FiniteSets, TLC

VARIABLES
    kv,         \* DB.Batching: the LevelDB key/value space
    lastOp,     \* the last completed LID call: name, arguments, returned error
    procs,      \* concurrent LID callers: position and locals of each goroutine
    overlap,    \* history: some LID call started while another was in progress
    handed,     \* history: the cursors NextCursor returned to registrations, in order
    marker,     \* the file <RootDir>/.boost-shard-registration-complete exists
    mig,        \* DagstoreReinitBoostDeals: the calling goroutine
    cons,       \* DagstoreReinitBoostDeals: the result-consumer goroutine
    resch,      \* chan dst.ShardResult (capacity 32)
    pending,    \* shard results the dagstore still has to deliver on resch
    ctxDone,    \* the context passed to DagstoreReinitBoostDeals is cancelled
    enabled,    \* Wrapper.enabled
    legacyProv, \* Wrapper.legacyProv is not nil
    bitswapEnabled,     \* Wrapper.bitswapEnabled
    extendedProvider,   \* Wrapper.extendedProvider is not nil
    ads,        \* provider engine: the advertisements published, in order
    annLog,     \* history: the announce calls completed, with their outcome
    offset,     \* ldb package variable offset
    checked,    \* ldb package variable checked
    clock,      \* time.Now()
    batchSize,  \* ldb package variable PiecesToTrackerBatchSize
    docLog      \* history: what NextPiecesToCheck returned, and when

lidVars == <<kv, lastOp, procs, overlap, handed>>
migVars == <<marker, mig, cons, resch, pending, ctxDone>>
annVars == <<enabled, legacyProv, bitswapEnabled, extendedProvider, ads, annLog>>
docVars == <<offset, checked, clock, batchSize, docLog>>
vars == <<lidVars, migVars, annVars, docVars>>

-----------------------------------------------------------------------------
(* Bounds of the model *)

MaxCursor == 103      \* registrations stop once the counter reaches this value
MaxRecs == 2          \* longest record list passed to one call
MaxFlagTime == 1      \* CreatedAt values of a flagged row are 0..MaxFlagTime

MaxDeals == 2         \* longest list ListActive returns
MaxXpAds == 1         \* extended-provider advertisements published
MaxTime == 4          \* the clock stops here
MaxBatch == 3         \* largest configured PiecesToTrackerBatchSize
MaxCalls == 2         \* calls of DagstoreReinitBoostDeals: the first start and a restart

Pieces == {"P", "Q"}
MhSeq == <<"m1", "m2">>
Multihashes == {MhSeq[i] : i \in 1..Len(MhSeq)}

\* A record of a CAR index: its multihash, offset and size.
Records == { [mh |-> "m1", off |-> 0, size |-> 256],
             [mh |-> "m2", off |-> 300, size |-> 1] }

RECURSIVE SeqsUpTo(_, _)
SeqsUpTo(S, n) ==
    IF n = 0 THEN {<<>>}
    ELSE LET shorter == SeqsUpTo(S, n - 1)
         IN shorter \cup {Append(s, x) : s \in {t \in shorter : Len(t) = n - 1}, x \in S}

RecordLists == SeqsUpTo(Records, MaxRecs)

-----------------------------------------------------------------------------
(* Errors: a chain of messages, outermost first; the empty chain is nil *)

Nil == <<>>
ErrNotFound == <<"datastore: key not found">>
ErrBackend == <<"backend error">>

\* fmt.Errorf("msg: %w", err)
Wrap(msg, err) == <<msg>> \o err
\* errors.Is(err, target) for a sentinel target
ErrorsIs(err, target) == \E i \in 1..Len(err) : SubSeq(err, i, Len(err)) = target

-----------------------------------------------------------------------------
(* encoding/binary: unsigned varints *)

MaxVarintLen64 == 10

RECURSIVE PutUvarintBytes(_)
PutUvarintBytes(x) ==
    IF x < 128 THEN <<x>>
    ELSE <<(x % 128) + 128>> \o PutUvarintBytes(x \div 128)

RECURSIVE Zeros(_)
Zeros(n) == IF n <= 0 THEN <<>> ELSE <<0>> \o Zeros(n - 1)

\* buf := make([]byte, n); binary.PutUvarint(buf, x)
PutUvarint(n, x) ==
    LET b == PutUvarintBytes(x) IN b \o Zeros(n - Len(b))

RECURSIVE UvarintFrom(_, _, _, _)
UvarintFrom(buf, i, acc, mult) ==
    IF i > Len(buf) THEN [value |-> 0, n |-> 0]
    ELSE IF buf[i] < 128 THEN [value |-> acc + buf[i] * mult, n |-> i]
    ELSE UvarintFrom(buf, i + 1, acc + (buf[i] - 128) * mult, mult * 128)

\* binary.Uvarint(buf): the value and the number of bytes read
Uvarint(buf) == UvarintFrom(buf, 1, 0, 1)

-----------------------------------------------------------------------------
(* The datastore: keys, Get/Put/Delete, batches, prefix queries *)

KeyNextCursor == <<"cursor">>
KeyMeta(p) == <<"md", p>>
KeyMh(m) == <<"mh", m>>
KeyFlagged(p) == <<"fl", p>>
\* cursorPrefix is the string "<cursor>/", here the list of its characters
KeyIdx(cursorPrefix, m) == <<"idx", cursorPrefix, m>>

Has(store, k) == k \in DOMAIN store
Put(store, k, v) == [x \in (DOMAIN store) \cup {k} |-> IF x = k THEN v ELSE store[x]]
Delete(store, k) == [x \in (DOMAIN store) \ {k} |-> store[x]]

BatchPut(batch, k, v) == Append(batch, [op |-> "put", key |-> k, val |-> v])
BatchDelete(batch, k) == Append(batch, [op |-> "delete", key |-> k, val |-> <<>>])

RECURSIVE Commit(_, _)
Commit(store, batch) ==
    IF batch = <<>> THEN store
    ELSE LET b == Head(batch)
         IN Commit(IF b.op = "put" THEN Put(store, b.key, b.val) ELSE Delete(store, b.key),
                   Tail(batch))

\* the value under k as a list of at most one element (empty: ds.ErrNotFound)
GetOpt(store, k) == IF Has(store, k) THEN <<store[k]>> ELSE <<>>

\* db.Query with Prefix "<cursor>/": the multihashes with a record, in key order
QueryIdx(store, prefix) ==
    SelectSeq(MhSeq, LAMBDA m : KeyIdx(prefix, m) \in DOMAIN store)

\* json.Marshal / json.Unmarshal of a []cid.Cid keep the list, in order
has(list, v) == \E i \in 1..Len(list) : list[i] = v

-----------------------------------------------------------------------------
(* fmt.Sprintf("%d", n): the decimal digits of n *)

Digits == <<"0", "1", "2", "3", "4", "5", "6", "7", "8", "9">>

RECURSIVE DecimalString(_)
DecimalString(n) ==
    IF n < 10 THEN <<Digits[n + 1]>>
    ELSE Append(DecimalString(n \div 10), Digits[(n % 10) + 1])

\* fmt.Sprintf("%d/", cursor)
CursorPrefix(cursor) == Append(DecimalString(cursor), "/")

-----------------------------------------------------------------------------
(* ldb.DB: the operations, each a function of the store *)

FirstCursor == 100

\* the result of an operation: the store it leaves and the error it returns
Result(store, err) == [kv |-> store, err |-> err]

\* faulty variant: keeps one byte of the varint
SetNextCursor_OneByte(store, cursor) ==
    Result(Put(store, KeyNextCursor, SubSeq(PutUvarint(MaxVarintLen64, cursor), 1, 1)), Nil)

SetNextCursor(store, cursor) ==
    Result(Put(store, KeyNextCursor, PutUvarint(MaxVarintLen64, cursor)), Nil)

\* fault: which backend call of InitCursor fails, if any
InitFaults == {"none", "get", "put"}

\* faulty variant: the counter is written whether or not it exists
InitCursorWith_AlwaysResets(store, fault) ==
    IF fault = "none" THEN SetNextCursor(store, FirstCursor) ELSE Result(store, Wrap("initializing database cursor", ErrBackend))

InitCursorWith(store, fault) ==
    IF fault = "get" THEN Result(store, Wrap("initializing database cursor", ErrBackend))
    ELSE IF Has(store, KeyNextCursor) THEN Result(store, Nil)
    ELSE IF fault = "put" THEN Result(store, Wrap("initializing database cursor", ErrBackend))
    ELSE SetNextCursor(store, FirstCursor)

InitCursor(store) == InitCursorWith(store, "none")

NextCursor(store) ==
    IF ~Has(store, KeyNextCursor)
    THEN [cursor |-> 0, prefix |-> <<>>, err |-> ErrNotFound]
    ELSE LET cursor == Uvarint(store[KeyNextCursor]).value
         IN [cursor |-> cursor, prefix |-> CursorPrefix(cursor), err |-> Nil]

\* LeveldbMetadata, as stored under the piece's metadata key
Metadata(cursor) == [cursor |-> cursor, error |-> "", errorType |-> ""]

SetPieceCidToMetadata(store, pieceCid, md) ==
    Result(Put(store, KeyMeta(pieceCid), md), Nil)

SetPieceCidToFlagged(store, pieceCid, fm) ==
    Result(Put(store, KeyFlagged(pieceCid), fm), Nil)

DeletePieceCidToFlagged(store, pieceCid) ==
    Result(Delete(store, KeyFlagged(pieceCid)), Nil)

AddIndexRecord(store, cursorPrefix, rec) ==
    Result(Put(store, KeyIdx(cursorPrefix, rec.mh),
               PutUvarintBytes(rec.off) \o PutUvarintBytes(rec.size)), Nil)

\* faulty variant: the existing list is overwritten instead of extended
SetMultihashStep_Overwrite(store, batch, mh, pieceCid) ==
    BatchPut(batch, KeyMh(mh), <<pieceCid>>)

\* faulty variant: the piece is appended without looking for it in the list
SetMultihashStep_AlwaysAppend(store, batch, mh, pieceCid) ==
    BatchPut(batch, KeyMh(mh), (IF Has(store, KeyMh(mh)) THEN store[KeyMh(mh)] ELSE <<>>) \o <<pieceCid>>)

\* One iteration of SetMultihashesToPieceCid's loop: the entry is read from the
\* store (not from the batch) and the new list is put in the batch.
SetMultihashStep(store, batch, mh, pieceCid) ==
    LET key == KeyMh(mh) IN
    IF ~Has(store, key) THEN BatchPut(batch, key, <<pieceCid>>)
    ELSE LET pcids == store[key]
         IN IF has(pcids, pieceCid) THEN batch
            ELSE BatchPut(batch, key, Append(pcids, pieceCid))

RECURSIVE SetMultihashesBatch(_, _, _, _)
SetMultihashesBatch(store, batch, recs, pieceCid) ==
    IF recs = <<>> THEN batch
    ELSE SetMultihashesBatch(store,
                             SetMultihashStep(store, batch, Head(recs).mh, pieceCid),
                             Tail(recs), pieceCid)

SetMultihashesToPieceCid(store, recs, pieceCid) ==
    Result(Commit(store, SetMultihashesBatch(store, <<>>, recs, pieceCid)), Nil)

\* The loop "for i, v := range pcids { if v == pieceCid { pcids[i] = last; shrink } }":
\* the range runs over the original length, arr is the shared backing array and
\* len the current length of pcids. Writing pcids[i] with i beyond len panics.
RECURSIVE RemoveLoop(_, _, _, _)
RemoveLoop(arr, len, i, pieceCid) ==
    IF i > Len(arr) THEN [pcids |-> SubSeq(arr, 1, len), panic |-> FALSE]
    ELSE IF arr[i] # pieceCid THEN RemoveLoop(arr, len, i + 1, pieceCid)
    ELSE IF i > len THEN [pcids |-> SubSeq(arr, 1, len), panic |-> TRUE]
    ELSE RemoveLoop([arr EXCEPT ![i] = arr[len]], len - 1, i + 1, pieceCid)

ErrPanic == <<"panic: index out of range">>

\* faulty variant: the inversion sets are left alone: only the index record is deleted
RemoveIndexStep_RecordOnly(store, batch, cursorPrefix, m, pieceCid) ==
    [batch |-> BatchDelete(batch, KeyIdx(cursorPrefix, m)), err |-> Nil]

\* faulty variant: the inversion entry is deleted whoever else is in it
RemoveIndexStep_DropsSet(store, batch, cursorPrefix, m, pieceCid) ==
    [batch |-> BatchDelete(BatchDelete(batch, KeyMh(m)), KeyIdx(cursorPrefix, m)), err |-> Nil]

\* faulty variant: the last piece is taken out of the set and the empty set stored
RemoveIndexStep_StoresEmpty(store, batch, cursorPrefix, m, pieceCid) ==
    LET key == KeyMh(m)
        pcids == store[key]
        loop == RemoveLoop(pcids, Len(pcids), 1, pieceCid)
        afterMh ==
            IF ~Has(store, key) THEN [batch |-> batch, err |-> Nil]
            ELSE IF ~has(pcids, pieceCid) THEN [batch |-> batch, err |-> Nil]
            ELSE IF Len(pcids) <= 1 THEN [batch |-> BatchPut(batch, key, <<>>), err |-> Nil]
            ELSE IF loop.panic THEN [batch |-> batch, err |-> ErrPanic]
            ELSE [batch |-> BatchPut(batch, key, loop.pcids), err |-> Nil]
    IN IF afterMh.err # Nil THEN afterMh
       ELSE [batch |-> BatchDelete(afterMh.batch, KeyIdx(cursorPrefix, m)), err |-> Nil]

\* One iteration of RemoveIndexes' loop for the record of multihash m.
RemoveIndexStep(store, batch, cursorPrefix, m, pieceCid) ==
    LET key == KeyMh(m)
        pcids == store[key]
        loop == RemoveLoop(pcids, Len(pcids), 1, pieceCid)
        afterMh ==
            IF ~Has(store, key) THEN [batch |-> batch, err |-> Nil]
            ELSE IF ~has(pcids, pieceCid) THEN [batch |-> batch, err |-> Nil]
            ELSE IF Len(pcids) <= 1 THEN [batch |-> BatchDelete(batch, key), err |-> Nil]
            ELSE IF loop.panic THEN [batch |-> batch, err |-> ErrPanic]
            ELSE [batch |-> BatchPut(batch, key, loop.pcids), err |-> Nil]
    IN IF afterMh.err # Nil THEN afterMh
       ELSE [batch |-> BatchDelete(afterMh.batch, KeyIdx(cursorPrefix, m)), err |-> Nil]

RECURSIVE RemoveIndexesBatch(_, _, _, _, _)
RemoveIndexesBatch(store, acc, cursorPrefix, results, pieceCid) ==
    IF results = <<>> \/ acc.err # Nil THEN acc
    ELSE RemoveIndexesBatch(store,
                            RemoveIndexStep(store, acc.batch, cursorPrefix,
                                            Head(results), pieceCid),
                            cursorPrefix, Tail(results), pieceCid)

\* fails: the backend fails before the batch is committed
RemoveIndexes(store, cursor, pieceCid, fails) ==
    LET prefix == CursorPrefix(cursor)
        built == RemoveIndexesBatch(store, [batch |-> <<>>, err |-> Nil], prefix,
                                    QueryIdx(store, prefix), pieceCid)
    IN IF fails THEN Result(store, Wrap("error querying the database", ErrBackend))
       ELSE IF built.err # Nil THEN Result(store, built.err)
       ELSE Result(Commit(store, built.batch), Nil)

\* the error of a backend read that fails while the record of multihash m is
\* being processed
ErrGetFailed(m) == Wrap("failed to get value for multihash", Wrap(m, ErrBackend))

\* faulty variant: what was batched before the failing record is committed
SetMultihashesToPieceCidWith_CommitsPartial(store, recs, pieceCid, failAt) ==
    IF failAt = 0 THEN SetMultihashesToPieceCid(store, recs, pieceCid) ELSE Result(Commit(store, SetMultihashesBatch(store, <<>>, SubSeq(recs, 1, failAt - 1), pieceCid)), ErrGetFailed(recs[failAt].mh))

\* SetMultihashesToPieceCid with db.Get failing for record number failAt
\* (0: no failure): the loop returns the error, the batch is dropped
SetMultihashesToPieceCidWith(store, recs, pieceCid, failAt) ==
    IF failAt = 0 THEN SetMultihashesToPieceCid(store, recs, pieceCid)
    ELSE Result(store, ErrGetFailed(recs[failAt].mh))

\* RemoveIndexes with db.Get failing for result number failAt of the query
\* (0: no failure)
RemoveIndexesWith(store, cursor, pieceCid, failAt) ==
    IF failAt = 0 THEN RemoveIndexes(store, cursor, pieceCid, FALSE)
    ELSE Result(store, ErrGetFailed(QueryIdx(store, CursorPrefix(cursor))[failAt]))

\* fault: which backend call of this invocation fails, if any
RemoveFaults == {"none", "removeIndexes", "delete"}

\* faulty variant: the flagged row goes with the metadata
RemovePieceMetadata_DeletesFlagged(store, pieceCid, fault) ==
    LET key == KeyMeta(pieceCid) IN
    IF ~Has(store, key) THEN Result(store, ErrNotFound)
    ELSE LET removed == RemoveIndexes(store, store[key].cursor, pieceCid,
                                      fault = "removeIndexes")
         IN IF removed.err # Nil THEN removed
            ELSE IF fault = "delete" THEN Result(removed.kv, ErrBackend)
            ELSE Result(Delete(Delete(removed.kv, KeyFlagged(pieceCid)), key), Nil)

\* faulty variant: the metadata key is deleted before RemoveIndexes runs
RemovePieceMetadata_DeleteFirst(store, pieceCid, fault) ==
    LET key == KeyMeta(pieceCid) IN
    IF ~Has(store, key) THEN Result(store, ErrNotFound)
    ELSE IF fault = "delete" THEN Result(store, ErrBackend)
    ELSE LET removed == RemoveIndexes(Delete(store, key), store[key].cursor, pieceCid,
                                      fault = "removeIndexes")
         IN removed

RemovePieceMetadata(store, pieceCid, fault) ==
    LET key == KeyMeta(pieceCid) IN
    IF ~Has(store, key) THEN Result(store, ErrNotFound)
    ELSE LET removed == RemoveIndexes(store, store[key].cursor, pieceCid,
                                      fault = "removeIndexes")
         IN IF removed.err # Nil THEN removed
            ELSE IF fault = "delete" THEN Result(removed.kv, ErrBackend)
            ELSE Result(Delete(removed.kv, key), Nil)

-----------------------------------------------------------------------------
(* Registration of a piece by the caller of the DB (spec.md, section 8,     *)
(* scenario 1): NextCursor, SetPieceCidToMetadata with that cursor,          *)
(* SetNextCursor(cursor+1), AddIndexRecord for every record, then            *)
(* SetMultihashesToPieceCid over the same records.                           *)

RECURSIVE AddIndexRecords(_, _, _)
AddIndexRecords(store, cursorPrefix, recs) ==
    IF recs = <<>> THEN store
    ELSE AddIndexRecords(AddIndexRecord(store, cursorPrefix, Head(recs)).kv,
                         cursorPrefix, Tail(recs))

RegisterPiece(store, pieceCid, recs) ==
    LET next == NextCursor(store)
        withMd == SetPieceCidToMetadata(store, pieceCid, Metadata(next.cursor)).kv
        bumped == SetNextCursor(withMd, next.cursor + 1).kv
        indexed == AddIndexRecords(bumped, next.prefix, recs)
    IN IF next.err # Nil THEN Result(store, next.err)
       ELSE SetMultihashesToPieceCid(indexed, recs, pieceCid)

-----------------------------------------------------------------------------
(* What is recorded about the last LID call *)

NoOp == [name |-> "none", piece |-> "", err |-> Nil, cursor |-> 0,
         indexed |-> <<>>, flagged |-> <<>>]

-----------------------------------------------------------------------------
(* SpecLid: the LID operations called one after the other on one store *)

\* the cursor of a piece with metadata, and what is recorded about a call
CursorOf(store, p) == store[KeyMeta(p)].cursor
Called(name, p, err) ==
    [name |-> name, piece |-> p, err |-> err,
     cursor |-> IF Has(kv, KeyMeta(p)) THEN CursorOf(kv, p) ELSE 0,
     indexed |-> IF Has(kv, KeyMeta(p))
                 THEN QueryIdx(kv, CursorPrefix(CursorOf(kv, p))) ELSE <<>>,
     flagged |-> GetOpt(kv, KeyFlagged(p))]

LidInitCursor ==
    /\ kv' = InitCursor(kv).kv
    /\ lastOp' = [NoOp EXCEPT !.name = "InitCursor"]
    /\ UNCHANGED <<procs, overlap, handed, migVars, annVars, docVars>>

LidRegisterPiece(p, recs) ==
    /\ Has(kv, KeyNextCursor)
    /\ NextCursor(kv).cursor < MaxCursor
    /\ ~Has(kv, KeyMeta(p))
    /\ kv' = RegisterPiece(kv, p, recs).kv
    /\ lastOp' = Called("RegisterPiece", p, RegisterPiece(kv, p, recs).err)
    /\ UNCHANGED <<procs, overlap, handed, migVars, annVars, docVars>>

LidSetPieceCidToFlagged(p, t) ==
    /\ kv' = SetPieceCidToFlagged(kv, p, [createdAt |-> t]).kv
    /\ lastOp' = Called("SetPieceCidToFlagged", p, Nil)
    /\ UNCHANGED <<procs, overlap, handed, migVars, annVars, docVars>>

LidDeletePieceCidToFlagged(p) ==
    /\ kv' = DeletePieceCidToFlagged(kv, p).kv
    /\ lastOp' = Called("DeletePieceCidToFlagged", p, Nil)
    /\ UNCHANGED <<procs, overlap, handed, migVars, annVars, docVars>>

LidRemovePieceMetadata(p, fault) ==
    /\ kv' = RemovePieceMetadata(kv, p, fault).kv
    /\ lastOp' = Called("RemovePieceMetadata", p, RemovePieceMetadata(kv, p, fault).err)
    /\ UNCHANGED <<procs, overlap, handed, migVars, annVars, docVars>>

LidNext ==
    \/ LidInitCursor
    \/ \E p \in Pieces, recs \in RecordLists : LidRegisterPiece(p, recs)
    \/ \E p \in Pieces, t \in 0..MaxFlagTime : LidSetPieceCidToFlagged(p, t)
    \/ \E p \in Pieces : LidDeletePieceCidToFlagged(p)
    \/ \E p \in Pieces, fault \in RemoveFaults : LidRemovePieceMetadata(p, fault)

LidInit ==
    /\ kv = <<>>
    /\ lastOp = NoOp
    /\ procs = <<>>
    /\ overlap = FALSE
    /\ handed = <<>>
    /\ marker = FALSE
    /\ mig = <<>>
    /\ cons = <<>>
    /\ resch = <<>>
    /\ pending = {}
    /\ ctxDone = FALSE
    /\ enabled = TRUE
    /\ legacyProv = FALSE
    /\ bitswapEnabled = FALSE
    /\ extendedProvider = FALSE
    /\ ads = <<>>
    /\ annLog = <<>>
    /\ offset = 0
    /\ checked = <<>>
    /\ clock = 0
    /\ batchSize = 1
    /\ docLog = <<>>

SpecLid == LidInit /\ [][LidNext]_vars

\* what a successful RemovePieceMetadata(P) leaves of P in the index tables
RemovedFromIndex(p, cursor) ==
    /\ ~Has(kv, KeyMeta(p))
    /\ \A m \in Multihashes : ~Has(kv, KeyIdx(CursorPrefix(cursor), m))
    /\ \A m \in Multihashes : Has(kv, KeyMh(m)) => ~has(kv[KeyMh(m)], p)

RemoveSucceeded == lastOp.name = "RemovePieceMetadata" /\ lastOp.err = Nil

\* C1 (as stated): after RemovePieceMetadata(P) returns success no key mentions P:
\* no index record under P's cursor prefix, P in no inversion set, no metadata
\* entry and no flagged entry.
C1_NoKeyMentionsPiece ==
    RemoveSucceeded =>
        /\ RemovedFromIndex(lastOp.piece, lastOp.cursor)
        /\ ~Has(kv, KeyFlagged(lastOp.piece))

\* C1 (amended): after RemovePieceMetadata(P) returns success there is no index
\* record under P's cursor prefix, P is in no inversion set and P has no metadata
\* entry; P's flagged entry is exactly what it was before the call.
C1_RemovedExceptFlagged ==
    RemoveSucceeded =>
        /\ RemovedFromIndex(lastOp.piece, lastOp.cursor)
        /\ GetOpt(kv, KeyFlagged(lastOp.piece)) = lastOp.flagged

\* a flagged piece with index records, sharing a multihash with another piece,
\* has been removed
C1_Witness ==
    /\ RemoveSucceeded
    /\ lastOp.indexed # <<>>
    /\ lastOp.flagged # <<>>
    /\ \E m \in Multihashes : Has(kv, KeyMh(m)) /\ has(lastOp.indexed, m)

-----------------------------------------------------------------------------
(* Concurrent callers of the DB: two goroutines, each step one datastore     *)
(* call (db.Get, db.Put, batch.Commit); batch.Put only touches the caller's  *)
(* own batch and belongs to the step of the db.Get before it.                *)

Goroutines == {1, 2}
Other(g) == 3 - g

Idle == [pc |-> "idle", piece |-> "", recs |-> <<>>, i |-> 0, batch |-> <<>>, cursor |-> 0]
Busy(g) == procs[g].pc \notin {"idle", "done"}

-----------------------------------------------------------------------------
(* SpecSetMh: SetMultihashesToPieceCid(recs, P) and                          *)
(* SetMultihashesToPieceCid(recs', Q), P # Q, one call per goroutine         *)

PieceOf(g) == IF g = 1 THEN "P" ELSE "Q"

SetMhCall(g, recs) ==
    /\ procs[g].pc = "idle"
    /\ procs' = [procs EXCEPT ![g] = [Idle EXCEPT !.pc = "loop", !.piece = PieceOf(g),
                                                 !.recs = recs, !.i = 1]]
    /\ overlap' = (overlap \/ Busy(Other(g)))
    /\ UNCHANGED <<kv, lastOp, handed, migVars, annVars, docVars>>

\* one iteration of the loop over recs: db.Get of the entry, batch.Put of the new list
SetMhIterate(g) ==
    /\ procs[g].pc = "loop"
    /\ procs[g].i <= Len(procs[g].recs)
    /\ procs' = [procs EXCEPT
                    ![g].batch = SetMultihashStep(kv, procs[g].batch,
                                                  procs[g].recs[procs[g].i].mh,
                                                  procs[g].piece),
                    ![g].i = procs[g].i + 1]
    /\ UNCHANGED <<kv, lastOp, overlap, handed, migVars, annVars, docVars>>

\* batch.Commit (atomic), then db.Sync and return nil
SetMhCommit(g) ==
    /\ procs[g].pc = "loop"
    /\ procs[g].i > Len(procs[g].recs)
    /\ kv' = Commit(kv, procs[g].batch)
    /\ procs' = [procs EXCEPT ![g].pc = "done"]
    /\ UNCHANGED <<lastOp, overlap, handed, migVars, annVars, docVars>>

SetMhNext ==
    \/ \E g \in Goroutines, recs \in RecordLists : SetMhCall(g, recs)
    \/ \E g \in Goroutines : SetMhIterate(g)
    \/ \E g \in Goroutines : SetMhCommit(g)

SetMhInit ==
    /\ kv = InitCursor(<<>>).kv
    /\ lastOp = NoOp
    /\ procs = [g \in Goroutines |-> Idle]
    /\ overlap = FALSE
    /\ handed = <<>>
    /\ marker = FALSE
    /\ mig = <<>>
    /\ cons = <<>>
    /\ resch = <<>>
    /\ pending = {}
    /\ ctxDone = FALSE
    /\ enabled = TRUE
    /\ legacyProv = FALSE
    /\ bitswapEnabled = FALSE
    /\ extendedProvider = FALSE
    /\ ads = <<>>
    /\ annLog = <<>>
    /\ offset = 0
    /\ checked = <<>>
    /\ clock = 0
    /\ batchSize = 1
    /\ docLog = <<>>

SpecSetMh == SetMhInit /\ [][SetMhNext]_vars

BothReturned == \A g \in Goroutines : procs[g].pc = "done"
InRecs(g, m) == \E i \in 1..Len(procs[g].recs) : procs[g].recs[i].mh = m
InSet(m, p) == Has(kv, KeyMh(m)) /\ has(kv[KeyMh(m)], p)

\* C2 (as stated): when SetMultihashesToPieceCid(recs, P) and
\* SetMultihashesToPieceCid(recs', Q) have both returned, in any interleaving, the
\* inversion set of every multihash in both lists contains both P and Q.
C2_NoLostUpdate ==
    BothReturned =>
        \A m \in Multihashes :
            (InRecs(1, m) /\ InRecs(2, m)) => (InSet(m, "P") /\ InSet(m, "Q"))

\* C2 (amended): when both calls have returned, a multihash of only one list has
\* that call's piece in its set; a multihash of both lists has at least one of P
\* and Q in its set, and both when the two calls did not overlap in time.
C2_SafeWhenSerialized ==
    BothReturned =>
        \A m \in Multihashes :
            /\ (InRecs(1, m) /\ ~InRecs(2, m)) => InSet(m, "P")
            /\ (InRecs(2, m) /\ ~InRecs(1, m)) => InSet(m, "Q")
            /\ (InRecs(1, m) /\ InRecs(2, m)) => (InSet(m, "P") \/ InSet(m, "Q"))
            /\ (InRecs(1, m) /\ InRecs(2, m) /\ ~overlap) =>
                   (InSet(m, "P") /\ InSet(m, "Q"))

\* both calls returned one after the other and share a multihash
C2_Witness ==
    /\ BothReturned
    /\ ~overlap
    /\ \E m \in Multihashes : InRecs(1, m) /\ InRecs(2, m) /\ kv[KeyMh(m)] = <<"Q", "P">>

-----------------------------------------------------------------------------
(* SpecReg: concurrent registrations, each NextCursor, SetPieceCidToMetadata *)
(* with the returned cursor, then SetNextCursor(cursor+1)                    *)

RegPieces == {"P", "Q", "R"}

RegNextCursor(g, p) ==
    /\ procs[g].pc = "idle"
    /\ ~Has(kv, KeyMeta(p))
    /\ ~(Busy(Other(g)) /\ procs[Other(g)].piece = p)
    /\ NextCursor(kv).err = Nil
    /\ NextCursor(kv).cursor < MaxCursor
    /\ procs' = [procs EXCEPT ![g] = [Idle EXCEPT !.pc = "setMetadata", !.piece = p,
                                                 !.cursor = NextCursor(kv).cursor]]
    /\ handed' = Append(handed, NextCursor(kv).cursor)
    /\ overlap' = (overlap \/ Busy(Other(g)))
    /\ UNCHANGED <<kv, lastOp, migVars, annVars, docVars>>

RegSetPieceCidToMetadata(g) ==
    /\ procs[g].pc = "setMetadata"
    /\ kv' = SetPieceCidToMetadata(kv, procs[g].piece, Metadata(procs[g].cursor)).kv
    /\ procs' = [procs EXCEPT ![g].pc = "setNextCursor"]
    /\ UNCHANGED <<lastOp, overlap, handed, migVars, annVars, docVars>>

RegSetNextCursor(g) ==
    /\ procs[g].pc = "setNextCursor"
    /\ kv' = SetNextCursor(kv, procs[g].cursor + 1).kv
    /\ procs' = [procs EXCEPT ![g] = Idle]
    /\ UNCHANGED <<lastOp, overlap, handed, migVars, annVars, docVars>>

RegNext ==
    \/ \E g \in Goroutines, p \in RegPieces : RegNextCursor(g, p)
    \/ \E g \in Goroutines : RegSetPieceCidToMetadata(g)
    \/ \E g \in Goroutines : RegSetNextCursor(g)

RegInit ==
    /\ kv = InitCursor(<<>>).kv
    /\ lastOp = NoOp
    /\ procs = [g \in Goroutines |-> Idle]
    /\ overlap = FALSE
    /\ handed = <<>>
    /\ marker = FALSE
    /\ mig = <<>>
    /\ cons = <<>>
    /\ resch = <<>>
    /\ pending = {}
    /\ ctxDone = FALSE
    /\ enabled = TRUE
    /\ legacyProv = FALSE
    /\ bitswapEnabled = FALSE
    /\ extendedProvider = FALSE
    /\ ads = <<>>
    /\ annLog = <<>>
    /\ offset = 0
    /\ checked = <<>>
    /\ clock = 0
    /\ batchSize = 1
    /\ docLog = <<>>

SpecReg == RegInit /\ [][RegNext]_vars

CursorsDistinct ==
    \A p, q \in RegPieces :
        (p # q /\ Has(kv, KeyMeta(p)) /\ Has(kv, KeyMeta(q)))
            => CursorOf(kv, p) # CursorOf(kv, q)
HandedIncreasing ==
    \A i \in 1..Len(handed) : \A j \in 1..Len(handed) : i < j => handed[i] < handed[j]

\* C3 (as stated): under any interleaving of registrations no two distinct pieces
\* hold the same cursor and the values NextCursor hands out are strictly increasing.
C3_CursorsNeverReused == CursorsDistinct /\ HandedIncreasing

-----------------------------------------------------------------------------
(* Deals and their checkpoints (dealcheckpoints, in the order of spec.md 4.4) *)

CheckpointSeq == <<"Accepted", "Transferred", "Published", "Sealing",
                   "IndexedAndAnnounced", "Complete">>
Ord(checkpoint) == CHOOSE i \in 1..Len(CheckpointSeq) : CheckpointSeq[i] = checkpoint
IndexedAndAnnounced == "IndexedAndAnnounced"
Complete == "Complete"

\* the checkpoints that matter: one below the boundary, the two at and above it
DealCheckpoints == {"Sealing", "IndexedAndAnnounced", "Complete"}

\* what dealsDB.ListActive can return for the migration: a list of deals
MigDeal == [checkpoint : DealCheckpoints]
MigDealLists == SeqsUpTo(MigDeal, MaxDeals)

-----------------------------------------------------------------------------
(* Wrapper.DagstoreReinitBoostDeals and its consumer goroutine *)

ReschCap == 32
MathMaxInt64 == 2147483647   \* stands for math.MaxInt64: above every count

ErrCanceled == <<"context canceled">>
ErrStat == <<"stat: permission denied">>

\* faulty variant: the marker is never found
boostRegistrationComplete_NotExist(markerFile, statOk) ==
    [complete |-> FALSE, err |-> Nil]

\* boostRegistrationComplete: os.Stat of the marker; statOk: stat does not fail
\* with an error other than "not exist"
boostRegistrationComplete(markerFile, statOk) ==
    IF ~markerFile THEN [complete |-> FALSE, err |-> Nil]
    ELSE IF ~statOk THEN [complete |-> FALSE, err |-> ErrStat]
    ELSE [complete |-> TRUE, err |-> Nil]

\* faulty variant: nothing is created and no error is returned
markBoostRegistrationComplete_NoFile(markerFile, createOk) ==
    [marker |-> markerFile, err |-> Nil]

\* markBoostRegistrationComplete: os.Create of the marker; the file exists
\* afterwards if it was there or the creation worked
markBoostRegistrationComplete(markerFile, createOk) ==
    [marker |-> markerFile \/ createOk, err |-> IF createOk THEN Nil ELSE ErrBackend]

MigIdleCall ==
    [pc |-> "idle", deals |-> <<>>, i |-> 0, registered |-> 0,
     migrated |-> FALSE, err |-> Nil, calls |-> 0,
     \* history of the call
     markerAtStart |-> FALSE, listOk |-> TRUE, statOk |-> TRUE, createOk |-> TRUE,
     offered |-> <<>>, regFailed |-> {}, via |-> "",
     \* the context was cancelled while the result of a registered shard had not
     \* yet been received by the consumer
     cancelledEarly |-> FALSE]

NoConsumer == [pc |-> "none", total |-> MathMaxInt64, rcvd |-> 0, failed |-> 0]

\* faulty variant: the consumer stops as soon as it has been told the total
ConsumerAfter_StopsAtTotal(c) ==
    [c EXCEPT !.pc = IF c.total = MathMaxInt64 THEN "running" ELSE "done"]

\* the consumer's loop condition "rcvd < total", evaluated after each receive
ConsumerAfter(c) ==
    [c EXCEPT !.pc = IF c.rcvd < c.total THEN "running" ELSE "done"]

\* The call up to the start of the registration loop: ListActive, the marker
\* check, then the consumer is started.
ReinitStart(m, markerFile, deals, listOk, statOk) ==
    LET started == [MigIdleCall EXCEPT !.deals = deals, !.calls = m.calls + 1,
                                      !.markerAtStart = markerFile,
                                      !.listOk = listOk, !.statOk = statOk]
        isComplete == boostRegistrationComplete(markerFile, statOk)
    IN IF ~listOk
       THEN [started EXCEPT !.pc = "returned", !.via = "listActive", !.deals = <<>>,
                            !.err = Wrap("failed to list active Boost deals", ErrBackend)]
       ELSE IF isComplete.err # Nil
       THEN [started EXCEPT !.pc = "returned", !.via = "stat",
                            !.err = Wrap("failed to get boost dagstore migration status",
                                         isComplete.err)]
       ELSE IF isComplete.complete
       THEN [started EXCEPT !.pc = "returned", !.via = "complete"]
       ELSE [started EXCEPT !.pc = "register", !.i = 1]

\* faulty variant: a failed RegisterShard ends the registration loop
AfterRegisterShard_Abort(m, ok) ==
    IF ok THEN [m EXCEPT !.i = m.i + 1, !.registered = m.registered + 1,
                         !.offered = Append(m.offered, m.i)]
    ELSE [m EXCEPT !.i = Len(m.deals) + 1, !.offered = Append(m.offered, m.i),
                   !.regFailed = m.regFailed \cup {m.i}]

\* faulty variant: a RegisterShard call that failed is counted as registered
AfterRegisterShard_CountsFailed(m, ok) ==
    [m EXCEPT !.i = m.i + 1, !.registered = m.registered + 1,
              !.offered = Append(m.offered, m.i),
              !.regFailed = IF ok THEN m.regFailed ELSE m.regFailed \cup {m.i}]

\* One iteration of the registration loop for a deal that is not filtered out:
\* RegisterShard is called; on error the loop continues with the next deal.
AfterRegisterShard(m, ok) ==
    IF ok THEN [m EXCEPT !.i = m.i + 1, !.registered = m.registered + 1,
                         !.offered = Append(m.offered, m.i)]
    ELSE [m EXCEPT !.i = m.i + 1, !.offered = Append(m.offered, m.i),
                   !.regFailed = m.regFailed \cup {m.i}]

\* faulty variant: the cancellation branch marks the migration complete
ReturnOnCancel_Marks(m, markerFile) ==
    [mig |-> [m EXCEPT !.pc = "returned", !.via = "cancel", !.migrated = TRUE],
     marker |-> TRUE]

\* faulty variant: the cancellation branch returns no error
ReturnOnCancel_SwallowsError(m, markerFile) ==
    [mig |-> [m EXCEPT !.pc = "returned", !.via = "cancel", !.migrated = FALSE],
     marker |-> markerFile]

\* select { case <-ctx.Done(): return false, ctx.Err() ...
ReturnOnCancel(m, markerFile) ==
    [mig |-> [m EXCEPT !.pc = "returned", !.via = "cancel", !.migrated = FALSE,
                       !.err = ErrCanceled],
     marker |-> markerFile]

\* ... case <-doneCh: }, then markBoostRegistrationComplete (an error is only
\* logged) and return true, nil
ReturnOnDone(m, markerFile, createOk) ==
    [mig |-> [m EXCEPT !.pc = "returned", !.via = "done", !.migrated = TRUE,
                       !.err = Nil, !.createOk = createOk],
     marker |-> markBoostRegistrationComplete(markerFile, createOk).marker]

MigOnly == UNCHANGED <<lidVars, annVars, docVars>>

\* a call starts (w.Start at boot, or again after a restart) with a fresh context
\* and fresh channels
MigCall(deals, listOk, statOk) ==
    /\ mig.pc \in {"idle", "returned"}
    /\ mig.calls < MaxCalls
    /\ mig' = ReinitStart(mig, marker, deals, listOk, statOk)
    /\ cons' = IF mig'.pc = "register" THEN [NoConsumer EXCEPT !.pc = "running"]
               ELSE NoConsumer
    /\ resch' = <<>>
    /\ pending' = {}
    /\ ctxDone' = FALSE
    /\ UNCHANGED marker
    /\ MigOnly

\* faulty variant: the filter of the announcer, which also drops complete deals
FilteredOut_AlsoComplete(deal) ==
    Ord(deal.checkpoint) < Ord(IndexedAndAnnounced) \/ Ord(deal.checkpoint) >= Ord(Complete)

\* "Filter out deals that have not yet been indexed and announced as they will
\* be re-indexed anyways": deal.Checkpoint < dealcheckpoints.IndexedAndAnnounced
FilteredOut(deal) ==
    Ord(deal.checkpoint) < Ord(IndexedAndAnnounced)

\* a deal below IndexedAndAnnounced is filtered out
MigSkipDeal ==
    /\ mig.pc = "register"
    /\ mig.i <= Len(mig.deals)
    /\ FilteredOut(mig.deals[mig.i])
    /\ mig' = [mig EXCEPT !.i = mig.i + 1]
    /\ UNCHANGED <<marker, cons, resch, pending, ctxDone>>
    /\ MigOnly

\* w.dagStore.RegisterShard for the deal's piece; ok: it returns nil, and the
\* dagstore owes one result on resch
MigRegisterShard(ok) ==
    /\ mig.pc = "register"
    /\ mig.i <= Len(mig.deals)
    /\ ~FilteredOut(mig.deals[mig.i])
    /\ mig' = AfterRegisterShard(mig, ok)
    /\ pending' = IF ok THEN pending \cup {mig.i} ELSE pending
    /\ UNCHANGED <<marker, cons, resch, ctxDone>>
    /\ MigOnly

\* totalCh <- registered: the unbuffered send meets the consumer's receive
MigSendTotal ==
    /\ mig.pc = "register"
    /\ mig.i > Len(mig.deals)
    /\ cons.pc = "running"
    /\ mig' = [mig EXCEPT !.pc = "wait"]
    /\ cons' = ConsumerAfter([cons EXCEPT !.total = mig.registered])
    /\ UNCHANGED <<marker, resch, pending, ctxDone>>
    /\ MigOnly

\* the consumer receives a result from resch
ConsumerReceive ==
    /\ cons.pc = "running"
    /\ resch # <<>>
    /\ cons' = ConsumerAfter([cons EXCEPT !.rcvd = cons.rcvd + 1,
                                          !.failed = cons.failed
                                                     + IF Head(resch).error THEN 1 ELSE 0])
    /\ resch' = Tail(resch)
    /\ UNCHANGED <<marker, mig, pending, ctxDone>>
    /\ MigOnly

\* the dagstore delivers the result of a registered shard, with or without error
DagstoreResult(d, error) ==
    /\ d \in pending
    /\ Len(resch) < ReschCap
    /\ resch' = Append(resch, [key |-> d, error |-> error])
    /\ pending' = pending \ {d}
    /\ UNCHANGED <<marker, mig, cons, ctxDone>>
    /\ MigOnly

CancelContext ==
    /\ mig.pc \in {"register", "wait"}
    /\ ~ctxDone
    /\ ctxDone' = TRUE
    /\ mig' = [mig EXCEPT !.cancelledEarly = (pending # {} \/ resch # <<>>)]
    /\ UNCHANGED <<marker, cons, resch, pending>>
    /\ MigOnly

MigWaitCancelled ==
    /\ mig.pc = "wait"
    /\ ctxDone
    /\ mig' = ReturnOnCancel(mig, marker).mig
    /\ marker' = ReturnOnCancel(mig, marker).marker
    /\ UNCHANGED <<cons, resch, pending, ctxDone>>
    /\ MigOnly

MigWaitDone(createOk) ==
    /\ mig.pc = "wait"
    /\ cons.pc = "done"
    /\ mig' = ReturnOnDone(mig, marker, createOk).mig
    /\ marker' = ReturnOnDone(mig, marker, createOk).marker
    /\ UNCHANGED <<cons, resch, pending, ctxDone>>
    /\ MigOnly

MigNext ==
    \/ \E deals \in MigDealLists, listOk \in BOOLEAN, statOk \in BOOLEAN :
          MigCall(deals, listOk, statOk)
    \/ MigSkipDeal
    \/ \E ok \in BOOLEAN : MigRegisterShard(ok)
    \/ MigSendTotal
    \/ ConsumerReceive
    \/ \E d \in pending, error \in BOOLEAN : DagstoreResult(d, error)
    \/ CancelContext
    \/ MigWaitCancelled
    \/ \E createOk \in BOOLEAN : MigWaitDone(createOk)

MigInit ==
    /\ kv = <<>>
    /\ lastOp = NoOp
    /\ procs = <<>>
    /\ overlap = FALSE
    /\ handed = <<>>
    /\ marker \in BOOLEAN
    /\ mig = MigIdleCall
    /\ cons = NoConsumer
    /\ resch = <<>>
    /\ pending = {}
    /\ ctxDone = FALSE
    /\ enabled = TRUE
    /\ legacyProv = FALSE
    /\ bitswapEnabled = FALSE
    /\ extendedProvider = FALSE
    /\ ads = <<>>
    /\ annLog = <<>>
    /\ offset = 0
    /\ checked = <<>>
    /\ clock = 0
    /\ batchSize = 1
    /\ docLog = <<>>

SpecMig == MigInit /\ [][MigNext]_vars

Returned == mig.pc = "returned"
Eligible(deal) ==
    /\ Ord(deal.checkpoint) >= Ord(IndexedAndAnnounced)
    /\ Ord(deal.checkpoint) < Ord(Complete)
Offered(i) == \E k \in 1..Len(mig.offered) : mig.offered[k] = i

\* a call that found the marker present: what the claim says of it
MarkerPresentNoOp ==
    (Returned /\ mig.markerAtStart) =>
        (~mig.migrated /\ mig.err = Nil /\ mig.offered = <<>>)

MarkerPresentNoShards ==
    (Returned /\ mig.markerAtStart) =>
        /\ ~mig.migrated
        /\ mig.offered = <<>>
        /\ (mig.err = Nil) <=> (mig.listOk /\ mig.statOk)
        /\ ~mig.listOk => ErrorsIs(mig.err, ErrBackend)

C5_CancelStillMarks ==
    (Returned /\ mig.via = "cancel") => (marker /\ mig.migrated)

\* C5 (amended): a call that leaves its wait through the cancellation returns
\* migrated=false with the context's error and writes no marker; a call returns
\* migrated=true only through doneCh, after the consumer has received every
\* acknowledgement.
C5_CancelReturnsError ==
    /\ (Returned /\ mig.via = "cancel") =>
           (~mig.migrated /\ mig.err = ErrCanceled /\ ~marker)
    /\ (Returned /\ mig.migrated) =>
           (mig.via = "done" /\ cons.pc = "done" /\ cons.rcvd = mig.registered)

\* cancelled with every registration submitted and acknowledgements outstanding
C5_Witness ==
    /\ Returned
    /\ mig.via = "cancel"
    /\ mig.i > Len(mig.deals)
    /\ mig.registered > 0
    /\ cons.rcvd < mig.registered

SomeShardFailed == mig.regFailed # {} \/ cons.failed > 0

\* C6: a call in which RegisterShard failed for a deal, or a shard result carried
\* an error, has still offered every deal with IndexedAndAnnounced <= checkpoint <
\* Complete; it ends only through doneCh or a cancelled context, and through
\* doneCh it returns migrated=true with no error, the marker written (when the
\* file can be created).
C6_FailedShardDoesNotAbort ==
    (Returned /\ SomeShardFailed) =>
        /\ \A i \in 1..Len(mig.deals) : Eligible(mig.deals[i]) => Offered(i)
        /\ mig.via = "done" \/ (mig.via = "cancel" /\ ctxDone)
        /\ mig.via = "done" =>
               (mig.migrated /\ mig.err = Nil /\ (mig.createOk => marker))

\* the first deal's RegisterShard failed, the second deal's shard result carried
\* an error, and the migration completed
C6_Witness ==
    /\ Returned
    /\ mig.via = "done"
    /\ 1 \in mig.regFailed
    /\ Offered(2)
    /\ cons.failed > 0
    /\ marker
    /\ mig.migrated

\* a call without a marker whose registration loop has run to its end
LoopFinished ==
    /\ ~mig.markerAtStart
    /\ mig.pc = "wait" \/ (Returned /\ mig.via \in {"done", "cancel"})

\* the positions 1..n of a list of n deals, in order
Positions(deals) == [i \in 1..Len(deals) |-> i]

AtLeastIndexed(deal) == Ord(deal.checkpoint) >= Ord(IndexedAndAnnounced)

MarkerWritten == ~marker /\ marker'

\* C26: the step that writes the marker is taken only when the registration loop
\* has gone over every active deal and the consumer has received one result for
\* every shard whose RegisterShard call succeeded: no registration is still to be
\* made, no result is still owed by the dagstore or waiting on resch.
C26_MarkerOnlyAfterEveryAck ==
    [][MarkerWritten =>
          /\ mig.i > Len(mig.deals)
          /\ cons.pc = "done"
          /\ cons.rcvd = mig.registered
          /\ pending = {}
          /\ resch = <<>>]_vars

\* the marker was written by a pass that registered two shards and received both
\* results
C26_Witness ==
    /\ Returned
    /\ mig.via = "done"
    /\ ~mig.markerAtStart
    /\ marker
    /\ mig.registered = 2
    /\ cons.rcvd = 2

\* C28 (as stated): a call whose context was cancelled before all shard results
\* had been received returns the context's error unchanged and does not report
\* migrated=true.
C28_EarlyCancelNeverSucceeds ==
    (Returned /\ mig.cancelledEarly) => (mig.err = ErrCanceled /\ ~mig.migrated)

\* C28 (amended): a call whose context was cancelled returns either through the
\* cancellation branch, with the context's error unchanged and migrated=false, or
\* through doneCh, and then only with every shard result received; the
\* cancellation branch is taken only with the context cancelled.
C28_CancelErrorOrEveryAckReceived ==
    /\ (Returned /\ ctxDone) =>
           \/ mig.via = "cancel" /\ mig.err = ErrCanceled /\ ~mig.migrated
           \/ /\ mig.via = "done" /\ mig.err = Nil /\ mig.migrated
              /\ cons.pc = "done" /\ cons.rcvd = mig.registered
              /\ pending = {} /\ resch = <<>>
    /\ (Returned /\ mig.via = "cancel") => ctxDone

\* cancelled with a result outstanding, and returned through the cancellation
\* branch with a result still not received
C28_Witness ==
    /\ Returned
    /\ mig.cancelledEarly
    /\ mig.via = "cancel"
    /\ mig.err = ErrCanceled
    /\ pending # {} \/ resch # <<>>

-----------------------------------------------------------------------------
(* The migration with a context that is never cancelled and a dagstore that    *)
(* delivers the result of every registered shard: the registration loop, the  *)
(* consumer and the dagstore are each scheduled fairly.                        *)

\* one more eligible deal than resch can hold
ManyDeals == [i \in 1..(ReschCap + 1) |-> [checkpoint |-> IndexedAndAnnounced]]

\* the long list is listed by the first call only
LiveDealLists(calls) == IF calls = 0 THEN MigDealLists \cup {ManyDeals} ELSE MigDealLists

\* failures are explored on the short lists; the long list registers every deal
ShortList == Len(mig.deals) <= MaxDeals
RegisterOutcomes == IF ShortList THEN BOOLEAN ELSE {TRUE}
ResultErrors == IF ShortList THEN BOOLEAN ELSE {FALSE}

\* the consumer only counts results, so the order in which the dagstore delivers
\* them is fixed: lowest deal first
NextResult == {d \in pending : \A e \in pending : d <= e}

MigLiveNext ==
    \/ \E deals \in LiveDealLists(mig.calls), listOk \in BOOLEAN, statOk \in BOOLEAN :
          MigCall(deals, listOk, statOk)
    \/ MigSkipDeal
    \/ \E ok \in RegisterOutcomes : MigRegisterShard(ok)
    \/ MigSendTotal
    \/ ConsumerReceive
    \/ \E d \in NextResult, error \in ResultErrors : DagstoreResult(d, error)
    \/ \E createOk \in BOOLEAN : MigWaitDone(createOk)

MigLiveInit ==
    /\ kv = <<>>
    /\ lastOp = NoOp
    /\ procs = <<>>
    /\ overlap = FALSE
    /\ handed = <<>>
    /\ marker \in BOOLEAN
    /\ mig = MigIdleCall
    /\ cons = NoConsumer
    /\ resch = <<>>
    /\ pending = {}
    /\ ctxDone = FALSE
    /\ enabled = TRUE
    /\ legacyProv = FALSE
    /\ bitswapEnabled = FALSE
    /\ extendedProvider = FALSE
    /\ ads = <<>>
    /\ annLog = <<>>
    /\ offset = 0
    /\ checked = <<>>
    /\ clock = 0
    /\ batchSize = 1
    /\ docLog = <<>>

SpecMigLive ==
    /\ MigLiveInit
    /\ [][MigLiveNext]_vars
    /\ WF_vars(MigSkipDeal)
    /\ WF_vars(\E ok \in RegisterOutcomes : MigRegisterShard(ok))
    /\ WF_vars(MigSendTotal)
    /\ WF_vars(ConsumerReceive)
    /\ WF_vars(\E d \in NextResult, error \in ResultErrors : DagstoreResult(d, error))
    /\ WF_vars(\E createOk \in BOOLEAN : MigWaitDone(createOk))

\* the call has returned true, nil, with the marker written when the file could
\* be created
Migrated ==
    /\ Returned
    /\ mig.via = "done"
    /\ mig.migrated
    /\ mig.err = Nil
    /\ mig.createOk => marker

\* C27: with a context that is never cancelled and one result delivered for
\* every successful RegisterShard, a call that has started the registration
\* ends, having returned migrated=true with the marker written, whatever the
\* number of eligible deals: none, fewer than resch holds, more than resch holds.
C27_MigrationTerminates == (mig.pc = "register") ~> Migrated

\* the migration of one more deal than resch holds has ended with the marker
\* written
C27_Witness ==
    /\ Migrated
    /\ marker
    /\ Len(mig.deals) > ReschCap
    /\ mig.registered = Len(mig.deals)
    /\ cons.rcvd = mig.registered

-----------------------------------------------------------------------------
(* The provider engine (provider.Interface), from spec.md 4.4 and 6:         *)
(* advertisements form a chain; NotifyPut of a context ID that already has   *)
(* an advertisement yields ErrAlreadyAdvertised.                             *)

ErrAlreadyAdvertised == <<"advertisement already exists">>
ErrEngine == <<"engine error">>
ErrEncode == <<"cbor encoding error">>
Undef == 0     \* cid.Undef; the CID of the i-th advertisement is i

LatestAd(adList) == Len(adList)
HasContext(adList, contextID) ==
    \E i \in 1..Len(adList) : adList[i].kind = "deal" /\ adList[i].contextID = contextID

NotifyPut(adList, contextID, putOk) ==
    IF HasContext(adList, contextID)
    THEN [ads |-> adList, cid |-> Undef, err |-> ErrAlreadyAdvertised]
    ELSE IF ~putOk THEN [ads |-> adList, cid |-> Undef, err |-> ErrEngine]
    ELSE [ads |-> Append(adList, [kind |-> "deal", contextID |-> contextID,
                                   prev |-> LatestAd(adList), extended |-> FALSE]),
          cid |-> Len(adList) + 1, err |-> Nil]

Publish(adList, ad, publishOk) ==
    IF ~publishOk THEN [ads |-> adList, cid |-> Undef, err |-> ErrEngine]
    ELSE [ads |-> Append(adList, ad), cid |-> Len(adList) + 1, err |-> Nil]

-----------------------------------------------------------------------------
(* Deals as the announcer sees them *)

DealIds == {"D", "E", "F"}
\* the piece of a deal; D and E are deals for the same piece
PieceCID(id) == IF id = "F" THEN "Q" ELSE "P"

\* ProviderDealState.SignedProposalCid: the CID of the deal's signed proposal;
\* the proposal of deal F cannot be encoded
SignedProposalCid(deal) ==
    IF deal.id = "F" THEN [cid |-> "", err |-> ErrEncode]
    ELSE [cid |-> <<"proposal", deal.id>>, err |-> Nil]

AnnDeal == [id : DealIds, checkpoint : DealCheckpoints]

\* what dealsDB.ListActive returns: the active deals in the order of the
\* database, D before E, each at some checkpoint
ActiveDealLists ==
    {l \in SeqsUpTo([id : {"D", "E"}, checkpoint : DealCheckpoints], 2) :
        \A i, j \in 1..Len(l) : i < j => l[i].id = "D" /\ l[j].id = "E"}

-----------------------------------------------------------------------------
(* Wrapper: the announce operations *)

ErrDisabledDeal == <<"cannot announce deal: index provider is disabled">>
ErrDisabledAll == <<"cannot announce all deals: index provider is disabled">>

\* log.Errorw of a failed meshCreator.Connect
ConnectLogged(meshOk) ==
    IF meshOk THEN <<>> ELSE <<"failed to connect boost node to full daemon node">>

\* faulty variant: a failed connection to the mesh ends the announcement
AnnounceBoostDeal_ConnectFatal(en, adList, deal, meshOk, putOk) ==
    LET propCid == SignedProposalCid(deal)
        put == NotifyPut(adList, propCid.cid, putOk)
    IN IF ~en
       THEN [ads |-> adList, cid |-> Undef, err |-> ErrDisabledDeal, calls |-> <<>>,
             logged |-> <<>>]
       ELSE IF ~meshOk
       THEN [ads |-> adList, cid |-> Undef, calls |-> <<"Connect">>, logged |-> <<>>,
             err |-> Wrap("failed to connect boost node to full daemon node", ErrBackend)]
       ELSE IF propCid.err # Nil
       THEN [ads |-> adList, cid |-> Undef, calls |-> <<"Connect">>, logged |-> <<>>,
             err |-> Wrap("failed to get proposal cid from deal", propCid.err)]
       ELSE IF put.err # Nil
       THEN [ads |-> put.ads, cid |-> Undef, calls |-> <<"Connect", "NotifyPut">>,
             logged |-> <<>>,
             err |-> Wrap("failed to announce deal to index provider", put.err)]
       ELSE [ads |-> put.ads, cid |-> put.cid, calls |-> <<"Connect", "NotifyPut">>,
             logged |-> <<>>, err |-> Nil]

\* faulty variant: the engine's error is formatted with %v: the chain is lost
AnnounceBoostDeal_Unwrapped(en, adList, deal, meshOk, putOk) ==
    LET propCid == SignedProposalCid(deal)
        put == NotifyPut(adList, propCid.cid, putOk)
    IN IF ~en
       THEN [ads |-> adList, cid |-> Undef, err |-> ErrDisabledDeal, calls |-> <<>>,
             logged |-> <<>>]
       ELSE IF propCid.err # Nil
       THEN [ads |-> adList, cid |-> Undef, calls |-> <<"Connect">>, logged |-> ConnectLogged(meshOk),
             err |-> Wrap("failed to get proposal cid from deal", propCid.err)]
       ELSE IF put.err # Nil
       THEN [ads |-> put.ads, cid |-> Undef, calls |-> <<"Connect", "NotifyPut">>,
             logged |-> ConnectLogged(meshOk),
             err |-> <<"failed to announce deal to index provider">>]
       ELSE [ads |-> put.ads, cid |-> put.cid, calls |-> <<"Connect", "NotifyPut">>,
             logged |-> ConnectLogged(meshOk),
             err |-> Nil]

\* meshOk: meshCreator.Connect succeeds (its error is only logged);
\* putOk: the engine does not fail for a reason of its own
AnnounceBoostDeal(en, adList, deal, meshOk, putOk) ==
    LET propCid == SignedProposalCid(deal)
        put == NotifyPut(adList, propCid.cid, putOk)
    IN IF ~en
       THEN [ads |-> adList, cid |-> Undef, err |-> ErrDisabledDeal, calls |-> <<>>,
             logged |-> <<>>]
       ELSE IF propCid.err # Nil
       THEN [ads |-> adList, cid |-> Undef, calls |-> <<"Connect">>, logged |-> ConnectLogged(meshOk),
             err |-> Wrap("failed to get proposal cid from deal", propCid.err)]
       ELSE IF put.err # Nil
       THEN [ads |-> put.ads, cid |-> Undef, calls |-> <<"Connect", "NotifyPut">>,
             logged |-> ConnectLogged(meshOk),
             err |-> Wrap("failed to announce deal to index provider", put.err)]
       ELSE [ads |-> put.ads, cid |-> put.cid, calls |-> <<"Connect", "NotifyPut">>,
             logged |-> ConnectLogged(meshOk),
             err |-> Nil]

\* faulty variant: a deal that is already advertised is counted as a success
AnnounceAllStep_CountsAdvertised(acc, deal, meshOk, putOk) ==
    LET ann == AnnounceBoostDeal(TRUE, acc.ads, deal, meshOk, putOk)
        called == [acc EXCEPT !.ads = ann.ads, !.calls = acc.calls \o ann.calls,
                              !.announced = Append(acc.announced, deal.id),
                              !.cids = Append(acc.cids, ann.cid),
                              !.errs = Append(acc.errs, ann.err)]
    IN IF Ord(deal.checkpoint) < Ord(IndexedAndAnnounced)
          \/ Ord(deal.checkpoint) >= Ord(Complete)
       THEN acc
       ELSE IF ann.err # Nil /\ ~ErrorsIs(ann.err, ErrAlreadyAdvertised)
       THEN [called EXCEPT !.merr = Append(acc.merr, ann.err)]
       ELSE [called EXCEPT !.shards = acc.shards \cup {PieceCID(deal.id)},
                           !.nSuccess = acc.nSuccess + 1]

\* One iteration of IndexerAnnounceAllDeals' loop over the active deals.
AnnounceAllStep(acc, deal, meshOk, putOk) ==
    LET ann == AnnounceBoostDeal(TRUE, acc.ads, deal, meshOk, putOk)
        called == [acc EXCEPT !.ads = ann.ads, !.calls = acc.calls \o ann.calls,
                              !.announced = Append(acc.announced, deal.id),
                              !.cids = Append(acc.cids, ann.cid),
                              !.errs = Append(acc.errs, ann.err)]
    IN IF Ord(deal.checkpoint) < Ord(IndexedAndAnnounced)
          \/ Ord(deal.checkpoint) >= Ord(Complete)
       THEN acc
       ELSE IF ann.err # Nil
       THEN IF ~ErrorsIs(ann.err, ErrAlreadyAdvertised)
            THEN [called EXCEPT !.merr = Append(acc.merr, ann.err)]
            ELSE called
       ELSE [called EXCEPT !.shards = acc.shards \cup {PieceCID(deal.id)},
                           !.nSuccess = acc.nSuccess + 1]

\* faulty variant: the loop ends at the first deal whose announcement fails
RECURSIVE AnnounceAllLoop_StopsOnFailure(_, _, _, _)
AnnounceAllLoop_StopsOnFailure(acc, deals, meshFail, putFail) ==
    IF deals = <<>> \/ acc.merr # <<>> THEN acc
    ELSE AnnounceAllLoop_StopsOnFailure(AnnounceAllStep(acc, Head(deals), Head(deals).id \notin meshFail,
                                                       Head(deals).id \notin putFail),
                                       Tail(deals), meshFail, putFail)

RECURSIVE AnnounceAllLoop(_, _, _, _)
AnnounceAllLoop(acc, deals, meshFail, putFail) ==
    IF deals = <<>> THEN acc
    ELSE AnnounceAllLoop(AnnounceAllStep(acc, Head(deals), Head(deals).id \notin meshFail,
                                         Head(deals).id \notin putFail),
                         Tail(deals), meshFail, putFail)

\* what an announce operation returns and did: the engine's advertisements, the
\* returned error (for the bulk announcer also the errors merr holds), the counts
\* it logs, its calls of collaborators and of AnnounceBoostDeal with, in errs,
\* what each of these returned
NoAnnounce(adList) ==
    [ads |-> adList, cid |-> Undef, err |-> Nil, merr |-> <<>>, nSuccess |-> 0,
     shards |-> {}, calls |-> <<>>, announced |-> <<>>, cids |-> <<>>, errs |-> <<>>,
     logged |-> <<>>]

\* listOk: dealsDB.ListActive succeeds; meshFail, putFail: the deals for which
\* Connect and the engine fail
IndexerAnnounceAllDeals(en, legacy, adList, deals, listOk, meshFail, putFail) ==
    LET start == [NoAnnounce(adList) EXCEPT
                    !.calls = IF legacy THEN <<"AnnounceAllDealsToIndexer", "ListActive">>
                              ELSE <<"ListActive">>]
        done == AnnounceAllLoop(start, deals, meshFail, putFail)
    IN IF ~en THEN [NoAnnounce(adList) EXCEPT !.err = ErrDisabledAll]
       ELSE IF ~listOk
       THEN [start EXCEPT !.err = Wrap("failed to list deals", ErrBackend)]
       ELSE [done EXCEPT !.err = IF done.merr = <<>> THEN Nil
                                 ELSE <<"multierror">> \o done.merr[1]]

\* faulty variant: the bitswap check comes before the enabled check
AnnounceExtendedProviders_BitswapFirst(en, bitswap, extProv, adList, latestOk, signOk, publishOk) ==
    LET ad == [kind |-> "extended", contextID |-> "", prev |-> LatestAd(adList),
               extended |-> extProv]
        published == Publish(adList, ad, publishOk)
    IN IF ~bitswap THEN NoAnnounce(adList)
       ELSE IF ~en THEN [NoAnnounce(adList) EXCEPT !.err = ErrDisabledAll]
       ELSE IF ~latestOk
       THEN [NoAnnounce(adList) EXCEPT !.err = ErrEngine, !.calls = <<"GetLatestAdv">>]
       ELSE IF ~signOk
       THEN [NoAnnounce(adList) EXCEPT !.err = <<"signing error">>,
                                       !.calls = <<"GetLatestAdv">>]
       ELSE [NoAnnounce(published.ads) EXCEPT !.err = published.err,
                                              !.calls = <<"GetLatestAdv", "Publish">>]

\* faulty variant: the advertisement is published whether or not bitswap is enabled
AnnounceExtendedProviders_AlwaysPublish(en, bitswap, extProv, adList, latestOk, signOk, publishOk) ==
    LET ad == [kind |-> "extended", contextID |-> "", prev |-> LatestAd(adList),
               extended |-> extProv]
        published == Publish(adList, ad, publishOk)
    IN IF ~en THEN [NoAnnounce(adList) EXCEPT !.err = ErrDisabledAll]
       ELSE IF ~latestOk
       THEN [NoAnnounce(adList) EXCEPT !.err = ErrEngine, !.calls = <<"GetLatestAdv">>]
       ELSE [NoAnnounce(published.ads) EXCEPT !.err = published.err,
                                              !.calls = <<"GetLatestAdv", "Publish">>]

\* faulty variant: bitswap is always announced as metadata on the main provider
AnnounceExtendedProviders_MetadataOnly(en, bitswap, extProv, adList, latestOk, signOk, publishOk) ==
    LET ad == [kind |-> "extended", contextID |-> "", prev |-> LatestAd(adList),
               extended |-> FALSE]
        published == Publish(adList, ad, publishOk)
    IN IF ~en THEN [NoAnnounce(adList) EXCEPT !.err = ErrDisabledAll]
       ELSE IF ~bitswap THEN NoAnnounce(adList)
       ELSE IF ~latestOk
       THEN [NoAnnounce(adList) EXCEPT !.err = ErrEngine, !.calls = <<"GetLatestAdv">>]
       ELSE IF ~signOk
       THEN [NoAnnounce(adList) EXCEPT !.err = <<"signing error">>,
                                       !.calls = <<"GetLatestAdv">>]
       ELSE [NoAnnounce(published.ads) EXCEPT !.err = published.err,
                                              !.calls = <<"GetLatestAdv", "Publish">>]

\* latestOk, signOk, publishOk: GetLatestAdv, BuildAndSign and Publish succeed
AnnounceExtendedProviders(en, bitswap, extProv, adList, latestOk, signOk, publishOk) ==
    LET ad == [kind |-> "extended", contextID |-> "", prev |-> LatestAd(adList),
               extended |-> extProv]
        published == Publish(adList, ad, publishOk)
    IN IF ~en THEN [NoAnnounce(adList) EXCEPT !.err = ErrDisabledAll]
       ELSE IF ~bitswap THEN NoAnnounce(adList)
       ELSE IF ~latestOk
       THEN [NoAnnounce(adList) EXCEPT !.err = ErrEngine, !.calls = <<"GetLatestAdv">>]
       ELSE IF ~signOk
       THEN [NoAnnounce(adList) EXCEPT !.err = <<"signing error">>,
                                       !.calls = <<"GetLatestAdv">>]
       ELSE [NoAnnounce(published.ads) EXCEPT !.err = published.err,
                                              !.calls = <<"GetLatestAdv", "Publish">>]

-----------------------------------------------------------------------------
(* Specification of the announcer: the three operations, called in any order *)
(* against one engine.  annLog is history: the last call, what it returned,  *)
(* the advertisements before it and the deals announced before it.           *)

AnnOps == {"AnnounceBoostDeal", "IndexerAnnounceAllDeals", "AnnounceExtendedProviders"}

\* the deals whose announcement returned an advertisement CID in this call
AnnouncedIn(res) == {res.announced[i] : i \in {j \in 1..Len(res.announced) : res.cids[j] # Undef}}

AnnCalled(op, deals, res) ==
    [op |-> op, deals |-> deals, res |-> res, adsBefore |-> ads,
     before |-> annLog.after, after |-> annLog.after \cup AnnouncedIn(res)]

AnnOnly == UNCHANGED <<enabled, legacyProv, bitswapEnabled, extendedProvider,
                        lidVars, migVars, docVars>>

AnnBoostDeal(deal, meshOk, putOk) ==
    LET ann == AnnounceBoostDeal(enabled, ads, deal, meshOk, putOk)
        res == [NoAnnounce(ann.ads) EXCEPT !.cid = ann.cid, !.err = ann.err,
                   !.calls = ann.calls, !.announced = <<deal.id>>, !.cids = <<ann.cid>>,
                   !.logged = ann.logged]
    IN /\ ads' = res.ads
       /\ annLog' = AnnCalled("AnnounceBoostDeal", <<deal>>, res)
       /\ AnnOnly

AnnAllDeals(deals, listOk, meshOk, putFail) ==
    LET res == IndexerAnnounceAllDeals(enabled, legacyProv, ads, deals, listOk,
                   IF meshOk THEN {} ELSE DealIds, putFail)
    IN /\ (listOk /\ meshOk) \/ putFail = {}   \* one kind of failure per call
       /\ listOk \/ meshOk
       /\ ads' = res.ads
       /\ annLog' = AnnCalled("IndexerAnnounceAllDeals", deals, res)
       /\ AnnOnly

AnnExtendedProviders(latestOk, signOk, publishOk) ==
    LET res == AnnounceExtendedProviders(enabled, bitswapEnabled, extendedProvider,
                   ads, latestOk, signOk, publishOk)
    IN /\ Cardinality({i \in 1..Len(ads) : ads[i].kind = "extended"}) < MaxXpAds
       /\ ads' = res.ads
       /\ annLog' = AnnCalled("AnnounceExtendedProviders", <<>>, res)
       /\ AnnOnly

AnnNext ==
    \/ \E id \in DealIds, meshOk, putOk \in BOOLEAN :
         AnnBoostDeal([id |-> id, checkpoint |-> IndexedAndAnnounced], meshOk, putOk)
    \/ \E deals \in ActiveDealLists, listOk, meshOk \in BOOLEAN :
         \E putFail \in SUBSET {deals[i].id : i \in 1..Len(deals)} :
            AnnAllDeals(deals, listOk, meshOk, putFail)
    \/ \E latestOk, signOk, publishOk \in BOOLEAN :
         AnnExtendedProviders(latestOk, signOk, publishOk)

AnnInit ==
    /\ kv = <<>>
    /\ lastOp = NoOp
    /\ procs = <<>>
    /\ overlap = FALSE
    /\ handed = <<>>
    /\ marker = FALSE
    /\ mig = <<>>
    /\ cons = <<>>
    /\ resch = <<>>
    /\ pending = {}
    /\ ctxDone = FALSE
    /\ enabled \in BOOLEAN
    /\ legacyProv \in BOOLEAN
    /\ bitswapEnabled \in BOOLEAN
    /\ extendedProvider \in {b \in BOOLEAN : b => bitswapEnabled}
    /\ ads = <<>>
    /\ annLog = [op |-> "none", deals |-> <<>>, res |-> NoAnnounce(<<>>),
                 adsBefore |-> <<>>, before |-> {}, after |-> {}]
    /\ offset = 0
    /\ checked = <<>>
    /\ clock = 0
    /\ batchSize = 1
    /\ docLog = <<>>

SpecAnn == AnnInit /\ [][AnnNext]_vars

-----------------------------------------------------------------------------
WithContext(contextID) ==
    {i \in 1..Len(ads) : ads[i].kind = "deal" /\ ads[i].contextID = contextID}

LastDeal == annLog.deals[1]

\* C7: announcing a deal is idempotent by context ID: the first successful
\* AnnounceBoostDeal(D) returns the CID of D's advertisement, every later
\* AnnounceBoostDeal(D) returns an error that errors.Is ErrAlreadyAdvertised
\* and publishes nothing, and the engine never holds two advertisements for
\* one context ID.  A call before the first successful one fails only with the
\* engine's own error or the proposal's encoding error, never with the sentinel.
C7_AnnounceIdempotent ==
    /\ \A id \in DealIds :
          Cardinality(WithContext(SignedProposalCid([id |-> id]).cid)) <= 1
    /\ annLog.op = "AnnounceBoostDeal" =>
        /\ LastDeal.id \in annLog.before =>
              /\ ErrorsIs(annLog.res.err, ErrAlreadyAdvertised)
              /\ annLog.res.cid = Undef
              /\ ads = annLog.adsBefore
        /\ (LastDeal.id \notin annLog.before /\ annLog.res.err # Nil) =>
              /\ ~ErrorsIs(annLog.res.err, ErrAlreadyAdvertised)
              /\ ads = annLog.adsBefore
        /\ annLog.res.err = Nil =>
              /\ LastDeal.id \notin annLog.before
              /\ annLog.res.cid # Undef
              /\ WithContext(SignedProposalCid(LastDeal).cid) = {annLog.res.cid}
              /\ ads = Append(annLog.adsBefore, ads[annLog.res.cid])

C7_Witness ==
    /\ annLog.op = "AnnounceBoostDeal"
    /\ LastDeal.id \in annLog.before
    /\ ErrorsIs(annLog.res.err, ErrAlreadyAdvertised)
    /\ Len(ads) >= 2

\* the bulk announcer ran over exactly one eligible deal which an earlier
\* announcement had already advertised
AllDealsOverAdvertised ==
    /\ annLog.op = "IndexerAnnounceAllDeals"
    /\ enabled
    /\ annLog.res.calls # <<>> /\ annLog.res.announced # <<>>
    /\ Len(annLog.deals) = 1
    /\ LastDeal.checkpoint = IndexedAndAnnounced
    /\ LastDeal.id \in annLog.before

\* C8 (as stated): with D already announced, AnnounceAllDeals over {D} publishes
\* nothing, reports 1 success and returns no error.
C8_ReportsOneSuccess ==
    AllDealsOverAdvertised =>
        /\ ads = annLog.adsBefore
        /\ annLog.res.nSuccess = 1
        /\ annLog.res.err = Nil

\* C8 (amended): with D already announced, AnnounceAllDeals over {D} publishes
\* nothing, returns no error, and reports 0 successes over 0 pieces: the
\* already-advertised deal is skipped, not counted.
C8_SkipsAdvertised ==
    AllDealsOverAdvertised =>
        /\ ads = annLog.adsBefore
        /\ annLog.res.nSuccess = 0
        /\ annLog.res.shards = {}
        /\ annLog.res.err = Nil

C8_Witness ==
    /\ AllDealsOverAdvertised
    /\ annLog.res.calls = <<"ListActive", "Connect", "NotifyPut">>
    /\ Len(ads) = 1

IsDisabledError(err) == err \in {ErrDisabledDeal, ErrDisabledAll}

\* C9: when the wrapper is disabled, AnnounceBoostDeal, IndexerAnnounceAllDeals
\* and AnnounceExtendedProviders each fail with the disabled error, call no
\* collaborator and publish nothing.
C9_DisabledFailsFast ==
    (~enabled /\ annLog.op \in AnnOps) =>
        /\ IsDisabledError(annLog.res.err)
        /\ annLog.res.calls = <<>>
        /\ annLog.res.cid = Undef
        /\ annLog.res.nSuccess = 0
        /\ ads = <<>>

C9_Witness ==
    /\ ~enabled
    /\ annLog.op = "IndexerAnnounceAllDeals"
    /\ legacyProv
    /\ \E i \in 1..Len(annLog.deals) : annLog.deals[i].checkpoint = IndexedAndAnnounced
    /\ IsDisabledError(annLog.res.err)

-----------------------------------------------------------------------------
(* The piece doctor's scan: NextPiecesToCheck with the package variables     *)
(* offset and checked.  One unit of time is fifteen seconds.                 *)

MinPieceCheckPeriod == 2

\* the keys of the piece table in the store's key order
PieceSeq == <<"P", "Q", "R">>

\* Query{Prefix: piece table, KeysOnly, Limit: limit, Offset: off}
QueryPieces(store, limit, off) ==
    LET keys == SelectSeq(PieceSeq, LAMBDA k : Has(store, KeyMeta(k)))
        from == off + 1
        to == IF off + limit < Len(keys) THEN off + limit ELSE Len(keys)
    IN IF limit = 0 THEN SubSeq(keys, from, Len(keys)) ELSE SubSeq(keys, from, to)

\* faulty variant: the period is not subtracted: alreadyChecked := t.After(now)
CheckStep_NoPeriod(acc, k, now) ==
    IF k \in DOMAIN acc.checked /\ acc.checked[k] > now
    THEN [acc EXCEPT !.i = acc.i + 1]
    ELSE [i |-> acc.i + 1,
          checked |-> [x \in DOMAIN acc.checked \cup {k} |->
                          IF x = k THEN now ELSE acc.checked[x]],
          pieceCids |-> Append(acc.pieceCids, k)]

\* One iteration of the loop over the query's results.
CheckStep(acc, k, now) ==
    IF k \in DOMAIN acc.checked /\ acc.checked[k] > now - MinPieceCheckPeriod
    THEN [acc EXCEPT !.i = acc.i + 1]
    ELSE [i |-> acc.i + 1,
          checked |-> [x \in DOMAIN acc.checked \cup {k} |->
                          IF x = k THEN now ELSE acc.checked[x]],
          pieceCids |-> Append(acc.pieceCids, k)]

RECURSIVE CheckLoop(_, _, _)
CheckLoop(acc, results, now) ==
    IF results = <<>> THEN acc
    ELSE CheckLoop(CheckStep(acc, Head(results), now), Tail(results), now)

\* queryOk: db.Query succeeds
NextPiecesToCheck(store, off, chk, limit, now, queryOk) ==
    LET results == QueryPieces(store, limit, off)
        done == CheckLoop([i |-> 0, checked |-> chk, pieceCids |-> <<>>], results, now)
    IN IF ~queryOk
       THEN [pieceCids |-> <<>>, offset |-> off, checked |-> chk,
             err |-> Wrap("listing pieces in database", ErrBackend)]
       ELSE [pieceCids |-> done.pieceCids,
             offset |-> IF done.i < limit - 1 THEN 0 ELSE off + done.i,
             checked |-> done.checked, err |-> Nil]

-----------------------------------------------------------------------------
(* Specification of the doctor: one loop calls NextPiecesToCheck while time  *)
(* passes and pieces are added to and removed from the store.  docLog is     *)
(* history: the last call's result, for each piece it returned the time      *)
(* since that piece's previous return, and every piece's last return.        *)

Never == 0 - 1

DocOnly == UNCHANGED <<lastOp, procs, overlap, handed, migVars, annVars>>

DocNextPiecesToCheck(queryOk) ==
    LET res == NextPiecesToCheck(kv, offset, checked, batchSize, clock, queryOk)
        returned == {res.pieceCids[i] : i \in 1..Len(res.pieceCids)}
    IN /\ offset' = res.offset
       /\ checked' = res.checked
       /\ docLog' = [pieceCids |-> res.pieceCids, err |-> res.err,
                     since |-> [i \in 1..Len(res.pieceCids) |->
                                  IF docLog.last[res.pieceCids[i]] = Never THEN Never
                                  ELSE clock - docLog.last[res.pieceCids[i]]],
                     last |-> [k \in DOMAIN docLog.last |->
                                 IF k \in returned THEN clock ELSE docLog.last[k]]]
       /\ UNCHANGED <<kv, clock, batchSize>>
       /\ DocOnly

DocTick ==
    /\ clock < MaxTime
    /\ clock' = clock + 1
    /\ UNCHANGED <<kv, offset, checked, batchSize, docLog>>
    /\ DocOnly

DocSetPieceCidToMetadata(k) ==
    /\ ~Has(kv, KeyMeta(k))
    /\ kv' = SetPieceCidToMetadata(kv, k, Metadata(FirstCursor)).kv
    /\ UNCHANGED <<offset, checked, clock, batchSize, docLog>>
    /\ DocOnly

DocRemovePieceMetadata(k) ==
    /\ Has(kv, KeyMeta(k))
    /\ kv' = RemovePieceMetadata(kv, k, "none").kv
    /\ UNCHANGED <<offset, checked, clock, batchSize, docLog>>
    /\ DocOnly

DocNext ==
    \/ \E queryOk \in BOOLEAN : DocNextPiecesToCheck(queryOk)
    \/ DocTick
    \/ \E k \in RegPieces : DocSetPieceCidToMetadata(k)
    \/ \E k \in RegPieces : DocRemovePieceMetadata(k)

DocInit ==
    /\ kv = InitCursor(<<>>).kv
    /\ lastOp = NoOp
    /\ procs = <<>>
    /\ overlap = FALSE
    /\ handed = <<>>
    /\ marker = FALSE
    /\ mig = <<>>
    /\ cons = <<>>
    /\ resch = <<>>
    /\ pending = {}
    /\ ctxDone = FALSE
    /\ enabled = TRUE
    /\ legacyProv = FALSE
    /\ bitswapEnabled = FALSE
    /\ extendedProvider = FALSE
    /\ ads = <<>>
    /\ annLog = <<>>
    /\ offset = 0
    /\ checked = <<>>
    /\ clock = 0
    /\ batchSize \in 1..MaxBatch
    /\ docLog = [pieceCids |-> <<>>, err |-> Nil, since |-> <<>>,
                 last |-> [k \in RegPieces |-> Never]]

SpecDoc == DocInit /\ [][DocNext]_vars

-----------------------------------------------------------------------------
\* C10: NextPiecesToCheck never returns the same piece twice within
\* MinPieceCheckPeriod: a piece returned by a call was last returned, if ever,
\* at least MinPieceCheckPeriod before that call; and no call returns the same
\* piece twice.
C10_NoRecheckWithinPeriod ==
    /\ \A i \in 1..Len(docLog.pieceCids) :
          docLog.since[i] # Never => docLog.since[i] >= MinPieceCheckPeriod
    /\ \A i, j \in 1..Len(docLog.pieceCids) :
          i # j => docLog.pieceCids[i] # docLog.pieceCids[j]

C10_Witness ==
    /\ Len(docLog.pieceCids) >= 2
    /\ \E i \in 1..Len(docLog.pieceCids) : docLog.since[i] = MinPieceCheckPeriod

-----------------------------------------------------------------------------
(* The doctor's loop over a piece table that does not change: the loop keeps *)
(* calling NextPiecesToCheck and time keeps passing (up to MaxTime).         *)

RECURSIVE StoreWithPieces(_, _)
StoreWithPieces(store, keys) ==
    IF keys = <<>> THEN store
    ELSE StoreWithPieces(SetPieceCidToMetadata(store, Head(keys), Metadata(FirstCursor)).kv,
                         Tail(keys))

DocLiveNext ==
    \/ \E queryOk \in BOOLEAN : DocNextPiecesToCheck(queryOk)
    \/ DocTick

DocLiveInit ==
    /\ kv \in {StoreWithPieces(InitCursor(<<>>).kv, SelectSeq(PieceSeq, LAMBDA k : k \in S)) :
                 S \in SUBSET RegPieces}
    /\ lastOp = NoOp
    /\ procs = <<>>
    /\ overlap = FALSE
    /\ handed = <<>>
    /\ marker = FALSE
    /\ mig = <<>>
    /\ cons = <<>>
    /\ resch = <<>>
    /\ pending = {}
    /\ ctxDone = FALSE
    /\ enabled = TRUE
    /\ legacyProv = FALSE
    /\ bitswapEnabled = FALSE
    /\ extendedProvider = FALSE
    /\ ads = <<>>
    /\ annLog = <<>>
    /\ offset = 0
    /\ checked = <<>>
    /\ clock = 0
    /\ batchSize \in 1..MaxBatch
    /\ docLog = [pieceCids |-> <<>>, err |-> Nil, since |-> <<>>,
                 last |-> [k \in RegPieces |-> Never]]

SpecDocLive ==
    /\ DocLiveInit
    /\ [][DocLiveNext]_vars
    /\ WF_vars(DocNextPiecesToCheck(TRUE))
    /\ WF_vars(DocTick)

\* a stored piece that was never returned, or whose last return is
\* MinPieceCheckPeriod or more ago
Due(k) ==
    /\ Has(kv, KeyMeta(k))
    /\ docLog.last[k] = Never \/ clock - docLog.last[k] >= MinPieceCheckPeriod

\* C11: the scan covers all pieces, for every number of stored pieces and every
\* batch size >= 1: repeated calls eventually return each stored piece, and
\* return it again once MinPieceCheckPeriod has elapsed since its last return.
C11_ScanCoversAllPieces == \A k \in RegPieces : Due(k) ~> ~Due(k)

\* the same for batch sizes of 2 and more
C11_CoversWhenBatchAtLeastTwo ==
    \A k \in RegPieces : (batchSize >= 2 /\ Due(k)) ~> ~Due(k)

-----------------------------------------------------------------------------
(* Piece metadata and its error state: GetPieceCidToMetadata and             *)
(* MarkIndexErrored.  An error value is its message (sourceErr.Error()) and  *)
(* its dynamic type (%T); errors.New("") is an error with an empty message.  *)

SourceErrors ==
    { [msg |-> "", type |-> "*errors.errorString"],
      [msg |-> "bad index", type |-> "*errors.errorString"],
      [msg |-> "unseal failed", type |-> "*fs.PathError"] }

GetPieceCidToMetadata(store, pieceCid) ==
    IF ~Has(store, KeyMeta(pieceCid))
    THEN [md |-> Metadata(0), err |-> Wrap("getting piece metadata for piece", ErrNotFound)]
    ELSE [md |-> store[KeyMeta(pieceCid)], err |-> Nil]

\* faulty variant: the existing error is overwritten
MarkIndexErrored_Overwrite(store, pieceCid, sourceErr) ==
    LET got == GetPieceCidToMetadata(store, pieceCid)
    IN IF got.err # Nil
       THEN Result(store, Wrap("getting piece metadata for piece", got.err))
       ELSE SetPieceCidToMetadata(store, pieceCid,
                [got.md EXCEPT !.error = sourceErr.msg, !.errorType = sourceErr.type])

MarkIndexErrored(store, pieceCid, sourceErr) ==
    LET got == GetPieceCidToMetadata(store, pieceCid)
    IN IF got.err # Nil
       THEN Result(store, Wrap("getting piece metadata for piece", got.err))
       ELSE IF got.md.error # "" THEN Result(store, Nil)
       ELSE SetPieceCidToMetadata(store, pieceCid,
                [got.md EXCEPT !.error = sourceErr.msg, !.errorType = sourceErr.type])

\* SpecMeta: metadata is written for a piece (again: with no error) and index
\* errors are reported for it.  lastOp is history: the last call, the metadata
\* before it, and for every piece the first error reported since its metadata
\* was last written without error.
MetaOnly == UNCHANGED <<procs, overlap, handed, migVars, annVars, docVars>>

MetaSetPieceCidToMetadata(k) ==
    /\ kv' = SetPieceCidToMetadata(kv, k, Metadata(FirstCursor)).kv
    /\ lastOp' = [name |-> "SetPieceCidToMetadata", piece |-> k, err |-> Nil,
                  before |-> GetOpt(kv, KeyMeta(k)),
                  first |-> [lastOp.first EXCEPT ![k] = <<>>]]
    /\ MetaOnly

MetaMarkIndexErrored(k, sourceErr) ==
    LET res == MarkIndexErrored(kv, k, sourceErr)
    IN /\ kv' = res.kv
       /\ lastOp' = [name |-> "MarkIndexErrored", piece |-> k, err |-> res.err,
                     before |-> GetOpt(kv, KeyMeta(k)),
                     first |-> IF res.err = Nil /\ lastOp.first[k] = <<>>
                               THEN [lastOp.first EXCEPT ![k] = <<sourceErr>>]
                               ELSE lastOp.first]
       /\ MetaOnly

MetaNext ==
    \/ \E k \in Pieces : MetaSetPieceCidToMetadata(k)
    \/ \E k \in Pieces, sourceErr \in SourceErrors : MetaMarkIndexErrored(k, sourceErr)

MetaInit ==
    /\ kv = InitCursor(<<>>).kv
    /\ lastOp = [name |-> "none", piece |-> "", err |-> Nil, before |-> <<>>,
                 first |-> [k \in Pieces |-> <<>>]]
    /\ procs = <<>>
    /\ overlap = FALSE
    /\ handed = <<>>
    /\ marker = FALSE
    /\ mig = <<>>
    /\ cons = <<>>
    /\ resch = <<>>
    /\ pending = {}
    /\ ctxDone = FALSE
    /\ enabled = TRUE
    /\ legacyProv = FALSE
    /\ bitswapEnabled = FALSE
    /\ extendedProvider = FALSE
    /\ ads = <<>>
    /\ annLog = <<>>
    /\ offset = 0
    /\ checked = <<>>
    /\ clock = 0
    /\ batchSize = 1
    /\ docLog = <<>>

SpecMeta == MetaInit /\ [][MetaNext]_vars

\* C12: MarkIndexErrored is write-once: once an error e1 has been reported for a
\* piece with metadata and no error, the piece's stored error and error type
\* stay e1's whatever is reported later, and a later call returns success
\* without writing.
C12_MarkIndexErroredWriteOnce ==
    /\ \A k \in Pieces :
          lastOp.first[k] # <<>> =>
              /\ kv[KeyMeta(k)].error = lastOp.first[k][1].msg
              /\ kv[KeyMeta(k)].errorType = lastOp.first[k][1].type
    /\ (lastOp.name = "MarkIndexErrored" /\ lastOp.before # <<>>
            /\ lastOp.before[1].errorType # "") =>
          (lastOp.err = Nil /\ GetOpt(kv, KeyMeta(lastOp.piece)) = lastOp.before)

\* the same for errors whose message is not empty
C12_WriteOnceForNonEmptyMessage ==
    /\ \A k \in Pieces :
          (lastOp.first[k] # <<>> /\ lastOp.first[k][1].msg # "") =>
              /\ kv[KeyMeta(k)].error = lastOp.first[k][1].msg
              /\ kv[KeyMeta(k)].errorType = lastOp.first[k][1].type
    /\ (lastOp.name = "MarkIndexErrored" /\ lastOp.before # <<>>
            /\ lastOp.before[1].error # "") =>
          (lastOp.err = Nil /\ GetOpt(kv, KeyMeta(lastOp.piece)) = lastOp.before)

\* the last call was RemovePieceMetadata and its RemoveIndexes step failed
RemoveIndexesFailed ==
    /\ lastOp.name = "RemovePieceMetadata"
    /\ lastOp.err = Wrap("error querying the database", ErrBackend)

\* C13: if RemoveIndexes fails, RemovePieceMetadata returns that error and the
\* piece's metadata entry, cursor included, is what it was before the call; the
\* metadata key is gone only after a call whose RemoveIndexes succeeded, that is
\* with no index record left under the piece's cursor and the piece in no
\* inversion set.
C13_MetadataOutlivesFailedRemoveIndexes ==
    /\ RemoveIndexesFailed =>
          /\ Has(kv, KeyMeta(lastOp.piece))
          /\ kv[KeyMeta(lastOp.piece)] = Metadata(lastOp.cursor)
          /\ QueryIdx(kv, CursorPrefix(lastOp.cursor)) = lastOp.indexed
    /\ (lastOp.name = "RemovePieceMetadata" /\ lastOp.cursor # 0
            /\ ~Has(kv, KeyMeta(lastOp.piece))) =>
          /\ lastOp.err = Nil
          /\ RemovedFromIndex(lastOp.piece, lastOp.cursor)

\* RemoveIndexes failed for a piece that has index records
C13_Witness ==
    /\ RemoveIndexesFailed
    /\ lastOp.indexed # <<>>
    /\ Has(kv, KeyMeta(lastOp.piece))
    /\ CursorOf(kv, lastOp.piece) = lastOp.cursor

\* p has metadata and an index record for m under its cursor
Indexes(p, m) ==
    /\ Has(kv, KeyMeta(p))
    /\ Has(kv, KeyIdx(CursorPrefix(CursorOf(kv, p)), m))

\* C20: between complete registrations and RemovePieceMetadata calls, a piece
\* is in the inversion set of a multihash if and only if the piece has metadata
\* and an index record for that multihash exists under the piece's cursor.
C20_InversionAgreesWithIndexes ==
    \A p \in Pieces, m \in Multihashes : InSet(m, p) <=> Indexes(p, m)

\* a removal has left the other piece as the only member of a set that held both
C20_Witness ==
    /\ RemoveSucceeded
    /\ \E q \in Pieces \ {lastOp.piece}, m \in Multihashes :
          /\ has(lastOp.indexed, m)
          /\ InSet(m, q) /\ Indexes(q, m)
          /\ ~InSet(m, lastOp.piece)

-----------------------------------------------------------------------------
(* Reads of the index and of the inversion table *)

ErrGetMultihash == Wrap("failed to get value for multihash", ErrNotFound)

GetPieceCidsByMultihash(store, mh) ==
    IF ~Has(store, KeyMh(mh)) THEN [pcids |-> <<>>, err |-> ErrGetMultihash]
    ELSE [pcids |-> store[KeyMh(mh)], err |-> Nil]

\* offset, n := binary.Uvarint(b); size, _ := binary.Uvarint(b[n:])
DecodeOffsetSize(b) ==
    LET first == Uvarint(b) IN
    [off |-> first.value, size |-> Uvarint(SubSeq(b, first.n + 1, Len(b))).value]

\* faulty variant: the size is decoded from the start of the value
GetOffsetSize_SizeFromStart(store, cursorPrefix, m) ==
    IF ~Has(store, KeyIdx(cursorPrefix, m)) THEN [off |-> 0, size |-> 0, err |-> ErrNotFound]
    ELSE [off |-> Uvarint(store[KeyIdx(cursorPrefix, m)]).value,
          size |-> Uvarint(store[KeyIdx(cursorPrefix, m)]).value, err |-> Nil]

GetOffsetSize(store, cursorPrefix, m) ==
    IF ~Has(store, KeyIdx(cursorPrefix, m)) THEN [off |-> 0, size |-> 0, err |-> ErrNotFound]
    ELSE [off |-> DecodeOffsetSize(store[KeyIdx(cursorPrefix, m)]).off,
          size |-> DecodeOffsetSize(store[KeyIdx(cursorPrefix, m)]).size, err |-> Nil]

RECURSIVE RecordsOf(_, _, _)
RecordsOf(store, prefix, mhs) ==
    IF mhs = <<>> THEN <<>>
    ELSE <<[mh |-> Head(mhs),
            off |-> DecodeOffsetSize(store[KeyIdx(prefix, Head(mhs))]).off,
            size |-> DecodeOffsetSize(store[KeyIdx(prefix, Head(mhs))]).size]>>
         \o RecordsOf(store, prefix, Tail(mhs))

\* faulty variant: the scan is not restricted to the cursor's prefix
AllRecords_AnyPrefix(store, cursor) ==
    RecordsOf(store, CursorPrefix(cursor), QueryIdx(store, CursorPrefix(cursor))) \o RecordsOf(store, CursorPrefix(cursor + 1), QueryIdx(store, CursorPrefix(cursor + 1)))

AllRecords(store, cursor) ==
    RecordsOf(store, CursorPrefix(cursor), QueryIdx(store, CursorPrefix(cursor)))

-----------------------------------------------------------------------------
(* SpecIdx: index records written and removed under the cursors 100 and 101, *)
(* one call after the other.  lastOp is history: the last call, its          *)
(* arguments and error; added holds every record written under a cursor      *)
(* since the cursor's records were last removed, latest the one written last *)
(* for each multihash.                                                       *)

IdxCursors == {100, 101}
IdxRecords == Records \cup {[mh |-> "m1", off |-> 16384, size |-> 128]}

IdxOnly == UNCHANGED <<procs, overlap, handed, migVars, annVars, docVars>>

IdxAddIndexRecord(c, rec) ==
    /\ kv' = AddIndexRecord(kv, CursorPrefix(c), rec).kv
    /\ lastOp' = [name |-> "AddIndexRecord", piece |-> "", cursor |-> c, recs |-> <<rec>>,
                  err |-> AddIndexRecord(kv, CursorPrefix(c), rec).err,
                  added |-> [lastOp.added EXCEPT ![c] = @ \cup {rec}],
                  latest |-> [lastOp.latest EXCEPT ![c][rec.mh] = <<rec>>]]
    /\ IdxOnly

IdxRemoveIndexes(c, p, fails) ==
    /\ kv' = RemoveIndexes(kv, c, p, fails).kv
    /\ lastOp' = [name |-> "RemoveIndexes", piece |-> p, cursor |-> c, recs |-> <<>>,
                  err |-> RemoveIndexes(kv, c, p, fails).err,
                  added |-> IF RemoveIndexes(kv, c, p, fails).err = Nil
                            THEN [lastOp.added EXCEPT ![c] = {}] ELSE lastOp.added,
                  latest |-> IF RemoveIndexes(kv, c, p, fails).err = Nil
                             THEN [lastOp.latest EXCEPT ![c] = [m \in Multihashes |-> <<>>]]
                             ELSE lastOp.latest]
    /\ IdxOnly

IdxNext ==
    \/ \E c \in IdxCursors, rec \in IdxRecords : IdxAddIndexRecord(c, rec)
    \/ \E c \in IdxCursors, p \in Pieces, fails \in BOOLEAN : IdxRemoveIndexes(c, p, fails)

IdxInit ==
    /\ kv = InitCursor(<<>>).kv
    /\ lastOp = [name |-> "none", piece |-> "", cursor |-> 0, recs |-> <<>>, err |-> Nil,
                 added |-> [c \in IdxCursors |-> {}],
                 latest |-> [c \in IdxCursors |-> [m \in Multihashes |-> <<>>]]]
    /\ procs = <<>>
    /\ overlap = FALSE
    /\ handed = <<>>
    /\ marker = FALSE
    /\ mig = <<>>
    /\ cons = <<>>
    /\ resch = <<>>
    /\ pending = {}
    /\ ctxDone = FALSE
    /\ enabled = TRUE
    /\ legacyProv = FALSE
    /\ bitswapEnabled = FALSE
    /\ extendedProvider = FALSE
    /\ ads = <<>>
    /\ annLog = <<>>
    /\ offset = 0
    /\ checked = <<>>
    /\ clock = 0
    /\ batchSize = 1
    /\ docLog = <<>>

SpecIdx == IdxInit /\ [][IdxNext]_vars

\* the records AllRecords returns, as a set
RecordSet(recs) == {recs[i] : i \in 1..Len(recs)}

\* the record written last for each multihash under cursor c, not since removed
LatestSet(c) == {lastOp.latest[c][m][1] : m \in {x \in Multihashes : lastOp.latest[c][x] # <<>>}}

\* C18: after AddIndexRecord(prefix, r), GetOffsetSize(prefix, r's multihash)
\* returns r's offset and length; for a multihash with no record under a prefix
\* GetOffsetSize fails with not-found, whatever exists under the other prefix.
C18_OffsetSizeRoundTrip ==
    /\ lastOp.name = "AddIndexRecord" =>
          /\ GetOffsetSize(kv, CursorPrefix(lastOp.cursor), lastOp.recs[1].mh).err = Nil
          /\ GetOffsetSize(kv, CursorPrefix(lastOp.cursor), lastOp.recs[1].mh).off = lastOp.recs[1].off
          /\ GetOffsetSize(kv, CursorPrefix(lastOp.cursor), lastOp.recs[1].mh).size = lastOp.recs[1].size
    /\ \A c \in IdxCursors, m \in Multihashes :
          lastOp.latest[c][m] = <<>> =>
              ErrorsIs(GetOffsetSize(kv, CursorPrefix(c), m).err, ErrNotFound)

\* a record with a three-byte offset and a two-byte length was written under
\* 101/ while 100/ has no record for its multihash
C18_Witness ==
    /\ lastOp.name = "AddIndexRecord"
    /\ lastOp.cursor = 101
    /\ lastOp.recs = <<[mh |-> "m1", off |-> 16384, size |-> 128]>>
    /\ Len(kv[KeyIdx(CursorPrefix(101), "m1")]) = 5
    /\ lastOp.latest[100]["m1"] = <<>>
    /\ GetOffsetSize(kv, CursorPrefix(100), "m1").err = ErrNotFound
    /\ GetOffsetSize(kv, CursorPrefix(101), "m1").off = 16384

\* C19 (as stated): AllRecords(C) returns every record added under "C/" and not
\* since removed exactly once, with its offset and length, and nothing else.
C19_AllRecordsReturnsEveryAdded ==
    \A c \in IdxCursors :
        /\ RecordSet(AllRecords(kv, c)) = lastOp.added[c]
        /\ Len(AllRecords(kv, c)) = Cardinality(lastOp.added[c])

\* C19 (amended): AllRecords(C) returns, for each multihash, the record added
\* last under "C/" and not since removed, exactly once, with its offset and
\* length, and nothing else: no earlier record of that multihash and no record
\* added under another cursor.
C19_AllRecordsReturnsLatestPerMultihash ==
    \A c \in IdxCursors :
        /\ RecordSet(AllRecords(kv, c)) = LatestSet(c)
        /\ Len(AllRecords(kv, c)) = Cardinality(LatestSet(c))

\* two records of one multihash were written under 100/, another record under
\* 101/, and AllRecords(100) returns the later of the two
C19_Witness ==
    /\ lastOp.name = "AddIndexRecord"
    /\ Cardinality({r \in lastOp.added[100] : r.mh = "m1"}) = 2
    /\ lastOp.added[101] # {}
    /\ lastOp.added[101] # lastOp.added[100]
    /\ AllRecords(kv, 100) = <<[mh |-> "m1", off |-> 0, size |-> 256]>>

-----------------------------------------------------------------------------
(* SpecInv: the inversion table.  The store holds the metadata of P (cursor  *)
(* 100) and Q (cursor 101); index records are written, inversion sets are    *)
(* extended and pieces are removed in any order, one call after the other.   *)
(* lastOp is history: the last call, its arguments, its error and the store  *)
(* before it.                                                                *)

InvOnly == UNCHANGED <<procs, overlap, handed, migVars, annVars, docVars>>

InvAddIndexRecord(c, rec) ==
    /\ kv' = AddIndexRecord(kv, CursorPrefix(c), rec).kv
    /\ lastOp' = [name |-> "AddIndexRecord", piece |-> "", cursor |-> c, recs |-> <<rec>>,
                  err |-> AddIndexRecord(kv, CursorPrefix(c), rec).err, before |-> kv]
    /\ InvOnly

InvSetMultihashesToPieceCid(p, recs) ==
    /\ kv' = SetMultihashesToPieceCid(kv, recs, p).kv
    /\ lastOp' = [name |-> "SetMultihashesToPieceCid", piece |-> p, cursor |-> 0, recs |-> recs,
                  err |-> SetMultihashesToPieceCid(kv, recs, p).err, before |-> kv]
    /\ InvOnly

InvRemoveIndexes(c, p) ==
    /\ kv' = RemoveIndexes(kv, c, p, FALSE).kv
    /\ lastOp' = [name |-> "RemoveIndexes", piece |-> p, cursor |-> c, recs |-> <<>>,
                  err |-> RemoveIndexes(kv, c, p, FALSE).err, before |-> kv]
    /\ InvOnly

InvRemovePieceMetadata(p) ==
    /\ Has(kv, KeyMeta(p))
    /\ kv' = RemovePieceMetadata(kv, p, "none").kv
    /\ lastOp' = [name |-> "RemovePieceMetadata", piece |-> p, cursor |-> CursorOf(kv, p),
                  recs |-> <<>>, err |-> RemovePieceMetadata(kv, p, "none").err, before |-> kv]
    /\ InvOnly

InvNext ==
    \/ \E c \in IdxCursors, rec \in Records : InvAddIndexRecord(c, rec)
    \/ \E p \in Pieces, recs \in RecordLists : InvSetMultihashesToPieceCid(p, recs)
    \/ \E c \in IdxCursors, p \in Pieces : InvRemoveIndexes(c, p)
    \/ \E p \in Pieces : InvRemovePieceMetadata(p)

InvInit ==
    /\ kv = SetNextCursor(SetPieceCidToMetadata(SetPieceCidToMetadata(InitCursor(<<>>).kv, "P", Metadata(100)).kv, "Q", Metadata(101)).kv, 102).kv
    /\ lastOp = [name |-> "none", piece |-> "", cursor |-> 0, recs |-> <<>>, err |-> Nil,
                 before |-> <<>>]
    /\ procs = <<>>
    /\ overlap = FALSE
    /\ handed = <<>>
    /\ marker = FALSE
    /\ mig = <<>>
    /\ cons = <<>>
    /\ resch = <<>>
    /\ pending = {}
    /\ ctxDone = FALSE
    /\ enabled = TRUE
    /\ legacyProv = FALSE
    /\ bitswapEnabled = FALSE
    /\ extendedProvider = FALSE
    /\ ads = <<>>
    /\ annLog = <<>>
    /\ offset = 0
    /\ checked = <<>>
    /\ clock = 0
    /\ batchSize = 1
    /\ docLog = <<>>

SpecInv == InvInit /\ [][InvNext]_vars

NoDuplicates(list) == \A i, j \in 1..Len(list) : list[i] = list[j] => i = j

SetSucceeded == lastOp.name = "SetMultihashesToPieceCid" /\ lastOp.err = Nil

\* C14: after any sequence of SetMultihashesToPieceCid and RemoveIndexes calls
\* made one after the other, GetPieceCidsByMultihash returns a list without a
\* duplicate, and the SetMultihashesToPieceCid call just made, made again,
\* leaves every inversion set as it is.
C14_InversionSetsDuplicateFree ==
    /\ \A m \in Multihashes : NoDuplicates(GetPieceCidsByMultihash(kv, m).pcids)
    /\ SetSucceeded =>
          \A m \in Multihashes :
              GetPieceCidsByMultihash(SetMultihashesToPieceCid(kv, lastOp.recs, lastOp.piece).kv, m)
                  = GetPieceCidsByMultihash(kv, m)

\* a call whose record list holds one multihash twice was made for a piece
\* that was already in the set, next to another piece, and changed nothing
C14_Witness ==
    /\ SetSucceeded
    /\ Len(lastOp.recs) = 2
    /\ lastOp.recs[1].mh = lastOp.recs[2].mh
    /\ Len(GetPieceCidsByMultihash(kv, lastOp.recs[1].mh).pcids) = 2
    /\ has(GetPieceCidsByMultihash(lastOp.before, lastOp.recs[1].mh).pcids, lastOp.piece)
    /\ kv = lastOp.before

\* C15: after SetMultihashesToPieceCid(records, P) returned success, for every
\* record GetPieceCidsByMultihash of its multihash returns a list that contains
\* P and every piece that was in the set before the call.
C15_SetThenGetContainsPiece ==
    SetSucceeded =>
        \A i \in 1..Len(lastOp.recs) :
            /\ GetPieceCidsByMultihash(kv, lastOp.recs[i].mh).err = Nil
            /\ has(GetPieceCidsByMultihash(kv, lastOp.recs[i].mh).pcids, lastOp.piece)
            /\ \A q \in Pieces :
                  has(GetPieceCidsByMultihash(lastOp.before, lastOp.recs[i].mh).pcids, q)
                      => has(GetPieceCidsByMultihash(kv, lastOp.recs[i].mh).pcids, q)

\* the piece was added to a set that held the other piece and to a set that
\* did not exist
C15_Witness ==
    /\ SetSucceeded
    /\ \E i, j \in 1..Len(lastOp.recs) :
          /\ GetPieceCidsByMultihash(lastOp.before, lastOp.recs[i].mh).pcids
                \in {<<q>> : q \in Pieces \ {lastOp.piece}}
          /\ Len(GetPieceCidsByMultihash(kv, lastOp.recs[i].mh).pcids) = 2
          /\ GetPieceCidsByMultihash(lastOp.before, lastOp.recs[j].mh).err = ErrGetMultihash
          /\ GetPieceCidsByMultihash(kv, lastOp.recs[j].mh).pcids = <<lastOp.piece>>

\* before the last call pieces p and q had metadata, an index record for m
\* under their cursors, and m's inversion set held exactly the two
BothIndexed(store, p, q, m) ==
    /\ Has(store, KeyMeta(p)) /\ Has(store, KeyMeta(q))
    /\ Has(store, KeyIdx(CursorPrefix(CursorOf(store, p)), m))
    /\ Has(store, KeyIdx(CursorPrefix(CursorOf(store, q)), m))
    /\ GetPieceCidsByMultihash(store, m).pcids \in {<<p, q>>, <<q, p>>}

\* C16: when P (cursor 100) and Q (cursor 101) both index a multihash,
\* RemovePieceMetadata of one of them leaves the multihash's inversion set
\* holding the other alone, deletes the record under the removed piece's cursor
\* and leaves the other's metadata and its record under its cursor unchanged.
C16_RemovalLeavesOtherPiece ==
    \A q \in Pieces \ {lastOp.piece}, m \in Multihashes :
        (lastOp.name = "RemovePieceMetadata" /\ BothIndexed(lastOp.before, lastOp.piece, q, m)) =>
            /\ lastOp.err = Nil
            /\ GetPieceCidsByMultihash(kv, m).pcids = <<q>>
            /\ ErrorsIs(GetOffsetSize(kv, CursorPrefix(lastOp.cursor), m).err, ErrNotFound)
            /\ ~Has(kv, KeyMeta(lastOp.piece))
            /\ Has(kv, KeyMeta(q)) /\ kv[KeyMeta(q)] = lastOp.before[KeyMeta(q)]
            /\ GetOffsetSize(kv, CursorPrefix(CursorOf(kv, q)), m)
                  = GetOffsetSize(lastOp.before, CursorPrefix(CursorOf(lastOp.before, q)), m)
            /\ GetOffsetSize(kv, CursorPrefix(CursorOf(kv, q)), m).err = Nil

\* P (cursor 100) was removed while Q (cursor 101) indexed the same multihash
C16_Witness ==
    /\ lastOp.name = "RemovePieceMetadata"
    /\ lastOp.piece = "P"
    /\ lastOp.cursor = 100
    /\ BothIndexed(lastOp.before, "P", "Q", "m1")
    /\ CursorOf(kv, "Q") = 101
    /\ GetPieceCidsByMultihash(kv, "m1").pcids = <<"Q">>
    /\ GetOffsetSize(kv, CursorPrefix(101), "m1").size = 256

-----------------------------------------------------------------------------
(* SpecCur: the cursor counter.  InitCursor, SetNextCursor(N) and NextCursor *)
(* are called in any order on a store that starts fresh.  lastOp is history: *)
(* the last call, its argument, what it returned and the store before it.    *)

CursorInputs == {0, 1, 100, 101, 127, 128, 255, 300, 16384, 65535}

CurOnly == UNCHANGED <<procs, overlap, handed, migVars, annVars, docVars>>

CurInitCursor(fault) ==
    /\ kv' = InitCursorWith(kv, fault).kv
    /\ lastOp' = [name |-> "InitCursor", arg |-> 0, err |-> InitCursorWith(kv, fault).err,
                  cursor |-> 0, prefix |-> <<>>, before |-> kv]
    /\ CurOnly

CurSetNextCursor(n) ==
    /\ kv' = SetNextCursor(kv, n).kv
    /\ lastOp' = [name |-> "SetNextCursor", arg |-> n, err |-> SetNextCursor(kv, n).err,
                  cursor |-> 0, prefix |-> <<>>, before |-> kv]
    /\ CurOnly

CurNextCursor ==
    /\ kv' = kv
    /\ lastOp' = [name |-> "NextCursor", arg |-> 0, err |-> NextCursor(kv).err,
                  cursor |-> NextCursor(kv).cursor, prefix |-> NextCursor(kv).prefix,
                  before |-> kv]
    /\ CurOnly

CurNext ==
    \/ \E fault \in InitFaults : CurInitCursor(fault)
    \/ \E n \in CursorInputs : CurSetNextCursor(n)
    \/ CurNextCursor

CurInit ==
    /\ kv = <<>>
    /\ lastOp = [name |-> "none", arg |-> 0, err |-> Nil, cursor |-> 0,
                 prefix |-> <<>>, before |-> <<>>]
    /\ procs = <<>>
    /\ overlap = FALSE
    /\ handed = <<>>
    /\ marker = FALSE
    /\ mig = <<>>
    /\ cons = <<>>
    /\ resch = <<>>
    /\ pending = {}
    /\ ctxDone = FALSE
    /\ enabled = TRUE
    /\ legacyProv = FALSE
    /\ bitswapEnabled = FALSE
    /\ extendedProvider = FALSE
    /\ ads = <<>>
    /\ annLog = <<>>
    /\ offset = 0
    /\ checked = <<>>
    /\ clock = 0
    /\ batchSize = 1
    /\ docLog = <<>>

SpecCur == CurInit /\ [][CurNext]_vars

\* the decimal digits of the cursor inputs, written out
Decimal ==
    [n \in CursorInputs |->
        CASE n = 0 -> <<"0">>
          [] n = 1 -> <<"1">>
          [] n = 100 -> <<"1", "0", "0">>
          [] n = 101 -> <<"1", "0", "1">>
          [] n = 127 -> <<"1", "2", "7">>
          [] n = 128 -> <<"1", "2", "8">>
          [] n = 255 -> <<"2", "5", "5">>
          [] n = 300 -> <<"3", "0", "0">>
          [] n = 65535 -> <<"6", "5", "5", "3", "5">>
          [] n = 16384 -> <<"1", "6", "3", "8", "4">>]

\* what NextCursor returns on the current store
Observes(n) ==
    /\ NextCursor(kv).err = Nil
    /\ NextCursor(kv).cursor = n
    /\ NextCursor(kv).prefix = Decimal[n] \o <<"/">>

\* C17: after InitCursor on a fresh store NextCursor returns 100 and "100/";
\* after SetNextCursor(N) NextCursor returns N and "N/", also when called
\* repeatedly: NextCursor does not change the counter.
C17_CounterRoundTrip ==
    /\ (lastOp.name = "InitCursor" /\ lastOp.before = <<>> /\ lastOp.err = Nil) => Observes(100)
    /\ lastOp.name = "SetNextCursor" => (lastOp.err = Nil /\ Observes(lastOp.arg))
    /\ lastOp.name = "NextCursor" =>
          /\ kv = lastOp.before
          /\ Has(kv, KeyNextCursor) =>
                (Observes(lastOp.cursor) /\ lastOp.err = Nil
                    /\ lastOp.prefix = Decimal[lastOp.cursor] \o <<"/">>)

\* NextCursor has returned 16384, set after the store was initialised
C17_Witness ==
    /\ lastOp.name = "NextCursor"
    /\ lastOp.cursor = 16384
    /\ lastOp.prefix = <<"1", "6", "3", "8", "4", "/">>
    /\ Uvarint(kv[KeyNextCursor]).n = 3

-----------------------------------------------------------------------------
\* C21: with the wrapper enabled and bitswap not configured,
\* AnnounceExtendedProviders returns nil without a call to the engine's
\* GetLatestAdv or Publish, and the advertisement chain is what it was.
C21_NoBitswapNoPublish ==
    (annLog.op = "AnnounceExtendedProviders" /\ enabled /\ ~bitswapEnabled) =>
        /\ annLog.res.err = Nil
        /\ annLog.res.calls = <<>>
        /\ ads = annLog.adsBefore

\* the call was made without bitswap, after a deal had been advertised, with an
\* engine whose GetLatestAdv would have failed
C21_Witness ==
    /\ annLog.op = "AnnounceExtendedProviders"
    /\ enabled /\ ~bitswapEnabled
    /\ annLog.res.err = Nil
    /\ ads # <<>>
    /\ annLog.before # {}

\* the deals of the last call's list that the bulk announcer does not skip
EligibleDeals ==
    SelectSeq(annLog.deals, LAMBDA d : Ord(d.checkpoint) >= Ord(IndexedAndAnnounced)
                                       /\ Ord(d.checkpoint) < Ord(Complete))

\* an AnnounceBoostDeal error that is not the already-advertised sentinel
IsFailure(err) == err # Nil /\ ~ErrorsIs(err, ErrAlreadyAdvertised)

AllDealsListed ==
    /\ annLog.op = "IndexerAnnounceAllDeals"
    /\ enabled
    /\ annLog.res.err # Wrap("failed to list deals", ErrBackend)

\* C24: AnnounceAllDeals calls AnnounceBoostDeal once, in list order, for every
\* active deal with IndexedAndAnnounced <= checkpoint < Complete and for no other
\* deal, whatever the earlier calls returned; it returns an error exactly when
\* one of these calls failed with an error other than already-advertised, and
\* the error holds every such failure.
C24_AnnouncesEveryEligibleDeal ==
    AllDealsListed =>
        /\ annLog.res.announced = [i \in 1..Len(EligibleDeals) |-> EligibleDeals[i].id]
        /\ Len(annLog.res.errs) = Len(EligibleDeals)
        /\ annLog.res.err # Nil <=> \E i \in 1..Len(annLog.res.errs) : IsFailure(annLog.res.errs[i])
        /\ annLog.res.merr = SelectSeq(annLog.res.errs, IsFailure)

\* the first of two eligible deals failed in the engine and the second was
\* announced all the same
C24_Witness ==
    /\ AllDealsListed
    /\ Len(EligibleDeals) = 2
    /\ IsFailure(annLog.res.errs[1])
    /\ annLog.res.errs[2] = Nil
    /\ annLog.res.cids[2] # Undef
    /\ annLog.res.err # Nil
    /\ Len(ads) = Len(annLog.adsBefore) + 1

-----------------------------------------------------------------------------
(* SpecFlag: flagged rows next to the other LID tables.  Pieces are flagged  *)
(* and unflagged while metadata is written, index errors are reported, and   *)
(* index records and inversion entries come and go, one call after the       *)
(* other.  lastOp is history: the last call, its error and the flagged row   *)
(* of every piece before it.                                                 *)

FlagRecord == [mh |-> "m1", off |-> 0, size |-> 256]
FlagError == [msg |-> "bad index", type |-> "*errors.errorString"]

FlaggedRows(store) == [p \in Pieces |-> GetOpt(store, KeyFlagged(p))]

FlagOnly == UNCHANGED <<procs, overlap, handed, migVars, annVars, docVars>>

FlagSetPieceCidToFlagged(p, t) ==
    /\ kv' = SetPieceCidToFlagged(kv, p, [createdAt |-> t]).kv
    /\ lastOp' = [name |-> "SetPieceCidToFlagged", piece |-> p,
                  err |-> SetPieceCidToFlagged(kv, p, [createdAt |-> t]).err,
                  flags |-> FlaggedRows(kv)]
    /\ FlagOnly

FlagDeletePieceCidToFlagged(p) ==
    /\ kv' = DeletePieceCidToFlagged(kv, p).kv
    /\ lastOp' = [name |-> "DeletePieceCidToFlagged", piece |-> p,
                  err |-> DeletePieceCidToFlagged(kv, p).err, flags |-> FlaggedRows(kv)]
    /\ FlagOnly

FlagSetPieceCidToMetadata(p) ==
    /\ kv' = SetPieceCidToMetadata(kv, p, Metadata(IF p = "P" THEN 100 ELSE 101)).kv
    /\ lastOp' = [name |-> "SetPieceCidToMetadata", piece |-> p, err |-> Nil,
                  flags |-> FlaggedRows(kv)]
    /\ FlagOnly

FlagMarkIndexErrored(p) ==
    /\ kv' = MarkIndexErrored(kv, p, FlagError).kv
    /\ lastOp' = [name |-> "MarkIndexErrored", piece |-> p,
                  err |-> MarkIndexErrored(kv, p, FlagError).err, flags |-> FlaggedRows(kv)]
    /\ FlagOnly

FlagAddIndexRecord(c) ==
    /\ kv' = AddIndexRecord(kv, CursorPrefix(c), FlagRecord).kv
    /\ lastOp' = [name |-> "AddIndexRecord", piece |-> "", err |-> Nil,
                  flags |-> FlaggedRows(kv)]
    /\ FlagOnly

FlagSetMultihashesToPieceCid(p) ==
    /\ kv' = SetMultihashesToPieceCid(kv, <<FlagRecord>>, p).kv
    /\ lastOp' = [name |-> "SetMultihashesToPieceCid", piece |-> p,
                  err |-> SetMultihashesToPieceCid(kv, <<FlagRecord>>, p).err,
                  flags |-> FlaggedRows(kv)]
    /\ FlagOnly

FlagRemoveIndexes(c, p) ==
    /\ kv' = RemoveIndexes(kv, c, p, FALSE).kv
    /\ lastOp' = [name |-> "RemoveIndexes", piece |-> p,
                  err |-> RemoveIndexes(kv, c, p, FALSE).err, flags |-> FlaggedRows(kv)]
    /\ FlagOnly

FlagRemovePieceMetadata(p) ==
    /\ kv' = RemovePieceMetadata(kv, p, "none").kv
    /\ lastOp' = [name |-> "RemovePieceMetadata", piece |-> p,
                  err |-> RemovePieceMetadata(kv, p, "none").err, flags |-> FlaggedRows(kv)]
    /\ FlagOnly

FlagNext ==
    \/ \E p \in Pieces, t \in 0..MaxFlagTime : FlagSetPieceCidToFlagged(p, t)
    \/ \E p \in Pieces : FlagDeletePieceCidToFlagged(p)
    \/ \E p \in Pieces : FlagSetPieceCidToMetadata(p)
    \/ \E p \in Pieces : FlagMarkIndexErrored(p)
    \/ \E c \in IdxCursors : FlagAddIndexRecord(c)
    \/ \E p \in Pieces : FlagSetMultihashesToPieceCid(p)
    \/ \E c \in IdxCursors, p \in Pieces : FlagRemoveIndexes(c, p)
    \/ \E p \in Pieces : FlagRemovePieceMetadata(p)

FlagInit ==
    /\ kv = InitCursor(<<>>).kv
    /\ lastOp = [name |-> "none", piece |-> "", err |-> Nil,
                 flags |-> [p \in Pieces |-> <<>>]]
    /\ procs = <<>>
    /\ overlap = FALSE
    /\ handed = <<>>
    /\ marker = FALSE
    /\ mig = <<>>
    /\ cons = <<>>
    /\ resch = <<>>
    /\ pending = {}
    /\ ctxDone = FALSE
    /\ enabled = TRUE
    /\ legacyProv = FALSE
    /\ bitswapEnabled = FALSE
    /\ extendedProvider = FALSE
    /\ ads = <<>>
    /\ annLog = <<>>
    /\ offset = 0
    /\ checked = <<>>
    /\ clock = 0
    /\ batchSize = 1
    /\ docLog = <<>>

SpecFlag == FlagInit /\ [][FlagNext]_vars

\* the calls that are not SetPieceCidToFlagged or DeletePieceCidToFlagged
OtherLidOps ==
    {"SetPieceCidToMetadata", "MarkIndexErrored", "AddIndexRecord",
     "SetMultihashesToPieceCid", "RemoveIndexes", "RemovePieceMetadata"}

\* C25: a flagged row stays as SetPieceCidToFlagged wrote it until
\* DeletePieceCidToFlagged is called for its piece: SetPieceCidToMetadata,
\* MarkIndexErrored, SetMultihashesToPieceCid, RemoveIndexes and
\* RemovePieceMetadata, failed or not, leave every flagged row as it was, and
\* flagging or unflagging one piece leaves the other piece's row as it was.
C25_FlaggedRowOnlyRemovedExplicitly ==
    /\ lastOp.name \in OtherLidOps => FlaggedRows(kv) = lastOp.flags
    /\ lastOp.name \in {"SetPieceCidToFlagged", "DeletePieceCidToFlagged"} =>
          \A p \in Pieces \ {lastOp.piece} : FlaggedRows(kv)[p] = lastOp.flags[p]
    /\ lastOp.name = "DeletePieceCidToFlagged" => FlaggedRows(kv)[lastOp.piece] = <<>>

\* a flagged piece with metadata, an index error and an index record was
\* removed and is still flagged, while the other piece has metadata and a flag
C25_Witness ==
    /\ lastOp.name = "RemovePieceMetadata"
    /\ lastOp.err = Nil
    /\ lastOp.flags[lastOp.piece] = <<[createdAt |-> MaxFlagTime]>>
    /\ FlaggedRows(kv)[lastOp.piece] = <<[createdAt |-> MaxFlagTime]>>
    /\ ~Has(kv, KeyMeta(lastOp.piece))
    /\ \E q \in Pieces \ {lastOp.piece} :
          /\ Has(kv, KeyMeta(q)) /\ kv[KeyMeta(q)].error = "bad index"
          /\ FlaggedRows(kv)[q] # <<>>
          /\ GetPieceCidsByMultihash(kv, "m1").pcids = <<q>>

\* C29: InitCursor on a store that has a counter returns nil and leaves the
\* counter as it is; it writes 100 only when the counter key is absent; when
\* the read or the write fails it returns an error and the store is what it
\* was.
C29_InitCursorKeepsCounter ==
    lastOp.name = "InitCursor" =>
        /\ Has(lastOp.before, KeyNextCursor) => kv = lastOp.before
        /\ (Has(lastOp.before, KeyNextCursor) /\ lastOp.err = Nil) =>
              NextCursor(kv) = NextCursor(lastOp.before)
        /\ kv # lastOp.before =>
              (~Has(lastOp.before, KeyNextCursor) /\ lastOp.err = Nil /\ Observes(100))
        /\ lastOp.err # Nil =>
              (kv = lastOp.before /\ ErrorsIs(lastOp.err, ErrBackend))
        /\ lastOp.err = Nil => Has(kv, KeyNextCursor)

\* InitCursor was called with the counter at 16384 and left it there
C29_Witness ==
    /\ lastOp.name = "InitCursor"
    /\ lastOp.err = Nil
    /\ NextCursor(lastOp.before).cursor = 16384
    /\ NextCursor(kv).cursor = 16384

-----------------------------------------------------------------------------
(* SpecBatch: the batched mutations with a backend read that may fail at any *)
(* record.  Index records are written, inversion sets extended and indexes   *)
(* removed, one call after the other.  lastOp is history: the last call, its *)
(* arguments, its error and the store before it.                             *)

BatchOnly == UNCHANGED <<procs, overlap, handed, migVars, annVars, docVars>>

BatchAddIndexRecord(c, rec) ==
    /\ kv' = AddIndexRecord(kv, CursorPrefix(c), rec).kv
    /\ lastOp' = [name |-> "AddIndexRecord", piece |-> "", cursor |-> c, recs |-> <<rec>>,
                  err |-> AddIndexRecord(kv, CursorPrefix(c), rec).err, before |-> kv]
    /\ BatchOnly

BatchSetMultihashesToPieceCid(p, recs, failAt) ==
    /\ kv' = SetMultihashesToPieceCidWith(kv, recs, p, failAt).kv
    /\ lastOp' = [name |-> "SetMultihashesToPieceCid", piece |-> p, cursor |-> 0, recs |-> recs,
                  err |-> SetMultihashesToPieceCidWith(kv, recs, p, failAt).err, before |-> kv]
    /\ BatchOnly

BatchRemoveIndexes(c, p, failAt) ==
    /\ failAt <= Len(QueryIdx(kv, CursorPrefix(c)))
    /\ kv' = RemoveIndexesWith(kv, c, p, failAt).kv
    /\ lastOp' = [name |-> "RemoveIndexes", piece |-> p, cursor |-> c, recs |-> <<>>,
                  err |-> RemoveIndexesWith(kv, c, p, failAt).err, before |-> kv]
    /\ BatchOnly

BatchNext ==
    \/ \E c \in IdxCursors, rec \in Records : BatchAddIndexRecord(c, rec)
    \/ \E p \in Pieces, recs \in RecordLists :
         \E failAt \in 0..Len(recs) : BatchSetMultihashesToPieceCid(p, recs, failAt)
    \/ \E c \in IdxCursors, p \in Pieces, failAt \in 0..Len(MhSeq) : BatchRemoveIndexes(c, p, failAt)

BatchInit ==
    /\ kv = InitCursor(<<>>).kv
    /\ lastOp = [name |-> "none", piece |-> "", cursor |-> 0, recs |-> <<>>, err |-> Nil,
                 before |-> <<>>]
    /\ procs = <<>>
    /\ overlap = FALSE
    /\ handed = <<>>
    /\ marker = FALSE
    /\ mig = <<>>
    /\ cons = <<>>
    /\ resch = <<>>
    /\ pending = {}
    /\ ctxDone = FALSE
    /\ enabled = TRUE
    /\ legacyProv = FALSE
    /\ bitswapEnabled = FALSE
    /\ extendedProvider = FALSE
    /\ ads = <<>>
    /\ annLog = <<>>
    /\ offset = 0
    /\ checked = <<>>
    /\ clock = 0
    /\ batchSize = 1
    /\ docLog = <<>>

SpecBatch == BatchInit /\ [][BatchNext]_vars

\* the last call was a batched mutation that returned an error
BatchedCallFailed ==
    /\ lastOp.name \in {"SetMultihashesToPieceCid", "RemoveIndexes"}
    /\ lastOp.err # Nil

\* C30: when SetMultihashesToPieceCid or RemoveIndexes returns an error before
\* its batch is committed, no inversion set and no index record has changed,
\* those of the records processed before the failing one included.
C30_FailedBatchWritesNothing ==
    BatchedCallFailed =>
        /\ kv = lastOp.before
        /\ \A m \in Multihashes :
              /\ GetPieceCidsByMultihash(kv, m) = GetPieceCidsByMultihash(lastOp.before, m)
              /\ \A c \in IdxCursors :
                    GetOffsetSize(kv, CursorPrefix(c), m)
                        = GetOffsetSize(lastOp.before, CursorPrefix(c), m)

\* SetMultihashesToPieceCid failed at its second record after a first record
\* whose inversion set, held by the other piece, it would have extended
C30_Witness ==
    /\ BatchedCallFailed
    /\ lastOp.name = "SetMultihashesToPieceCid"
    /\ lastOp.err = ErrGetFailed("m2")
    /\ Len(lastOp.recs) = 2
    /\ lastOp.recs[1].mh = "m1"
    /\ Len(GetPieceCidsByMultihash(kv, "m1").pcids) = 1
    /\ ~has(GetPieceCidsByMultihash(kv, "m1").pcids, lastOp.piece)

-----------------------------------------------------------------------------
(* The multihash lister registered by Wrapper.Start: from a context ID to the  *)
(* multihash iterator of the deal's piece.                                     *)

NoIter == [piece |-> ""]

\* what a lookup of the proposal returns: the deal with its piece, or an error
LookupOutcomes ==
    {[err |-> Nil, piece |-> p] : p \in Pieces}
        \cup {[err |-> e, piece |-> ""] : e \in {ErrNotFound, ErrBackend}}

\* provideF: the iterable index of the piece from the dagstore, then its
\* multihash iterator
provideF(pieceCid, indexOk, iterOk) ==
    IF ~indexOk
    THEN [iter |-> NoIter, err |-> Wrap("failed to get iterable index", ErrBackend)]
    ELSE IF ~iterOk
    THEN [iter |-> NoIter, err |-> Wrap("failed to get mhiterator", ErrBackend)]
    ELSE [iter |-> [piece |-> pieceCid], err |-> Nil]

\* the outcome of the callback with the sources it consulted, in order
Listed(res, pieceCid, consulted) ==
    [iter |-> res.iter, err |-> res.err, piece |-> pieceCid, consulted |-> consulted]

\* faulty variant: the legacy source is asked first
MultihashLister_LegacyFirst(castOk, boost, hasLegacy, legacy, indexOk, iterOk) ==
    IF ~castOk
    THEN Listed([iter |-> NoIter, err |-> <<"failed to cast context ID to a cid">>], "", <<>>)
    ELSE IF hasLegacy /\ legacy.err = Nil
    THEN Listed(provideF(legacy.piece, indexOk, iterOk), legacy.piece, <<"legacy">>)
    ELSE IF boost.err = Nil
    THEN Listed(provideF(boost.piece, indexOk, iterOk), boost.piece, <<"legacy", "boost">>)
    ELSE Listed([iter |-> NoIter, err |-> <<"failed to look up deal in Boost and Legacy Markets">>], "", <<"legacy", "boost">>)

\* The callback: cid.Cast of the context ID, dealsDB.BySignedProposalCID, then
\* legacyProv.GetLocalDeal when there is a legacy provider; the last error is made
\* with %s and wraps neither lookup error.
MultihashLister(castOk, boost, hasLegacy, legacy, indexOk, iterOk) ==
    IF ~castOk
    THEN Listed([iter |-> NoIter, err |-> <<"failed to cast context ID to a cid">>], "", <<>>)
    ELSE IF boost.err = Nil
    THEN Listed(provideF(boost.piece, indexOk, iterOk), boost.piece, <<"boost">>)
    ELSE IF hasLegacy /\ legacy.err = Nil
    THEN Listed(provideF(legacy.piece, indexOk, iterOk), legacy.piece, <<"boost", "legacy">>)
    ELSE Listed([iter |-> NoIter, err |-> <<"failed to look up deal in Boost and Legacy Markets">>], "",
                IF hasLegacy THEN <<"boost", "legacy">> ELSE <<"boost">>)

ListerOnly ==
    UNCHANGED <<kv, procs, overlap, handed, migVars, enabled, bitswapEnabled,
                extendedProvider, ads, annLog, docVars>>

\* the provider engine calls the lister for a context ID
ListerCall(castOk, boost, legacy, indexOk, iterOk) ==
    /\ lastOp' = [name |-> "lister", castOk |-> castOk, boost |-> boost, legacy |-> legacy,
                  indexOk |-> indexOk, iterOk |-> iterOk,
                  res |-> MultihashLister(castOk, boost, legacyProv, legacy, indexOk, iterOk)]
    /\ UNCHANGED legacyProv
    /\ ListerOnly

ListerNext ==
    \E castOk \in BOOLEAN, boost \in LookupOutcomes, legacy \in LookupOutcomes,
       indexOk \in BOOLEAN, iterOk \in BOOLEAN :
        ListerCall(castOk, boost, legacy, indexOk, iterOk)

ListerInit ==
    /\ kv = <<>>
    /\ lastOp = [name |-> "none"]
    /\ procs = <<>>
    /\ overlap = FALSE
    /\ handed = <<>>
    /\ marker = FALSE
    /\ mig = MigIdleCall
    /\ cons = NoConsumer
    /\ resch = <<>>
    /\ pending = {}
    /\ ctxDone = FALSE
    /\ enabled = TRUE
    /\ legacyProv \in BOOLEAN
    /\ bitswapEnabled = FALSE
    /\ extendedProvider = FALSE
    /\ ads = <<>>
    /\ annLog = <<>>
    /\ offset = 0
    /\ checked = <<>>
    /\ clock = 0
    /\ batchSize = 1
    /\ docLog = <<>>

SpecLister == ListerInit /\ [][ListerNext]_vars

ListerCalled == lastOp.name = "lister" /\ lastOp.castOk

Consulted(res, source) == \E k \in 1..Len(res.consulted) : res.consulted[k] = source

\* the iterator of the piece when the dagstore gives it, its error otherwise
ResolvedTo(res, pieceCid) ==
    /\ res.piece = pieceCid
    /\ (lastOp.indexOk /\ lastOp.iterOk) => (res.err = Nil /\ res.iter = [piece |-> pieceCid])
    /\ ~(lastOp.indexOk /\ lastOp.iterOk) => (res.err # Nil /\ res.iter = NoIter)

\* C22: the callback consults the deals DB first; when the deal is found there its
\* piece is used and the legacy source is not consulted; the legacy source is
\* consulted exactly when the deals DB lookup failed and there is a legacy
\* provider; a deal known to one source only is resolved to its piece; when both
\* lookups fail, or the deals DB lookup fails and there is no legacy provider, the
\* callback returns an error and no iterator.
C22_ListerLookupOrder ==
    ListerCalled =>
        LET res == lastOp.res
            boostFound == lastOp.boost.err = Nil
            legacyFound == legacyProv /\ lastOp.legacy.err = Nil
        IN /\ res.consulted[1] = "boost"
           /\ boostFound => (res.consulted = <<"boost">> /\ ResolvedTo(res, lastOp.boost.piece))
           /\ Consulted(res, "legacy") <=> (~boostFound /\ legacyProv)
           /\ (~boostFound /\ legacyFound) => ResolvedTo(res, lastOp.legacy.piece)
           /\ (~boostFound /\ ~legacyFound) => (res.err # Nil /\ res.iter = NoIter)

\* the deal is unknown to the deals DB and known to the legacy provider: the
\* iterator is that of the legacy deal's piece
C22_Witness ==
    /\ ListerCalled
    /\ legacyProv
    /\ lastOp.boost.err = ErrNotFound
    /\ lastOp.legacy = [err |-> Nil, piece |-> "Q"]
    /\ lastOp.res.consulted = <<"boost", "legacy">>
    /\ lastOp.res.iter = [piece |-> "Q"]
    /\ lastOp.res.err = Nil

-----------------------------------------------------------------------------
\* the calls of Publish in a sequence of calls
PublishCalls(calls) == Cardinality({i \in 1..Len(calls) : calls[i] = "Publish"})

\* what AnnounceExtendedProviders would do in this state when GetLatestAdv or
\* BuildAndSign fails: return the error without a call of Publish
FailsBeforePublish ==
    \A latestOk, signOk, publishOk \in BOOLEAN :
        LET res == AnnounceExtendedProviders(enabled, bitswapEnabled, extendedProvider,
                       ads, latestOk, signOk, publishOk)
        IN (~latestOk \/ ~signOk) =>
               /\ res.err = IF ~latestOk THEN ErrEngine ELSE <<"signing error">>
               /\ PublishCalls(res.calls) = 0
               /\ res.ads = ads

\* C31: with the wrapper enabled and bitswap configured, a call of
\* AnnounceExtendedProviders that returns nil has published exactly one
\* advertisement, linked to the engine's latest; it carries bitswap as an
\* extended provider exactly when the wrapper was built with public bitswap
\* addresses, and as metadata on the main provider otherwise.  A call that
\* returns an error has added no advertisement, and when GetLatestAdv or the
\* signing fails that error is returned and Publish is not called.
C31_ExtendedProviderIffPublic ==
    (enabled /\ bitswapEnabled) =>
        /\ FailsBeforePublish
        /\ annLog.op = "AnnounceExtendedProviders" =>
               /\ PublishCalls(annLog.res.calls) <= 1
               /\ annLog.res.err # Nil => ads = annLog.adsBefore
               /\ annLog.res.err = Nil =>
                      /\ PublishCalls(annLog.res.calls) = 1
                      /\ ads = Append(annLog.adsBefore,
                                      [kind |-> "extended", contextID |-> "",
                                       prev |-> LatestAd(annLog.adsBefore),
                                       extended |-> extendedProvider])

\* bitswap without public addresses, announced after a deal: the advertisement
\* carries the metadata only
C31_Witness ==
    /\ enabled /\ bitswapEnabled /\ ~extendedProvider
    /\ annLog.op = "AnnounceExtendedProviders"
    /\ annLog.res.err = Nil
    /\ Len(ads) = 2
    /\ ads[2].kind = "extended"
    /\ ~ads[2].extended

-----------------------------------------------------------------------------
\* the last call was AnnounceBoostDeal on an enabled wrapper
BoostDealAnnounced == annLog.op = "AnnounceBoostDeal" /\ enabled

NotifyPutCalls(calls) == Cardinality({i \in 1..Len(calls) : calls[i] = "NotifyPut"})

\* the call returned what NotifyPut returned for the context ID: its
\* advertisement CID, or its error wrapped
ReturnedNotifyPut(res, contextID) ==
    \E putOk \in BOOLEAN :
        LET put == NotifyPut(annLog.adsBefore, contextID, putOk)
        IN /\ ads = put.ads
           /\ res.cid = put.cid
           /\ (put.err = Nil) <=> (res.err = Nil)
           /\ put.err # Nil => ErrorsIs(res.err, put.err)

\* C32: on an enabled wrapper, a call of AnnounceBoostDeal in which
\* meshCreator.Connect failed has still called NotifyPut once, with the deal's
\* signed-proposal CID as context ID, and returned its result; a call for a deal
\* whose signed-proposal CID cannot be computed has not called NotifyPut and has
\* returned an error.
C32_ConnectFailureNotFatal ==
    BoostDealAnnounced =>
        LET res == annLog.res
            propCid == SignedProposalCid(annLog.deals[1])
        IN /\ (res.logged # <<>> /\ propCid.err = Nil) =>
                  /\ NotifyPutCalls(res.calls) = 1
                  /\ ReturnedNotifyPut(res, propCid.cid)
           /\ propCid.err # Nil =>
                  /\ NotifyPutCalls(res.calls) = 0
                  /\ ErrorsIs(res.err, propCid.err)
                  /\ res.cid = Undef
                  /\ ads = annLog.adsBefore

\* the connection failed and the deal was advertised
C32_Witness ==
    /\ BoostDealAnnounced
    /\ annLog.res.logged # <<>>
    /\ annLog.res.err = Nil
    /\ annLog.res.cid = Len(ads)
    /\ ads[Len(ads)].contextID = SignedProposalCid(annLog.deals[1]).cid

-----------------------------------------------------------------------------
\* before the last call the piece was alone in m's inversion set and m had a
\* record under the cursor
OnlyPieceOf(store, cursor, pieceCid, m) ==
    /\ Has(store, KeyMh(m))
    /\ store[KeyMh(m)] = <<pieceCid>>
    /\ Has(store, KeyIdx(CursorPrefix(cursor), m))

NoEmptyInversionSet == \A m \in Multihashes : Has(kv, KeyMh(m)) => kv[KeyMh(m)] # <<>>

\* C33: a RemoveIndexes that removes the only piece of a multihash's inversion
\* set deletes the inversion key: GetPieceCidsByMultihash fails with not-found
\* afterwards and returns no list; no inversion key is ever stored with an empty
\* set.
C33_LastPieceDeletesInversionKey ==
    /\ NoEmptyInversionSet
    /\ \A m \in Multihashes :
          (/\ lastOp.name = "RemoveIndexes"
           /\ lastOp.err = Nil
           /\ OnlyPieceOf(lastOp.before, lastOp.cursor, lastOp.piece, m)) =>
              /\ ~Has(kv, KeyMh(m))
              /\ ErrorsIs(GetPieceCidsByMultihash(kv, m).err, ErrNotFound)
              /\ GetPieceCidsByMultihash(kv, m).pcids = <<>>

\* P was the only piece of m1 and its indexes were removed, while m2 stays with Q
C33_Witness ==
    /\ lastOp.name = "RemoveIndexes"
    /\ lastOp.err = Nil
    /\ lastOp.piece = "P"
    /\ OnlyPieceOf(lastOp.before, lastOp.cursor, "P", "m1")
    /\ ~Has(kv, KeyMh("m1"))
    /\ Has(kv, KeyMh("m2"))

-----------------------------------------------------------------------------
(* AnnounceExtendedProviders in the goroutine of the OnStart hook, step by     *)
(* step, while deals are announced by other goroutines against the same        *)
(* engine.  procs holds the goroutine's position and its local "last".         *)

XpIdle == [pc |-> "start", last |-> Undef, err |-> Nil]

XpOnly == UNCHANGED <<kv, lastOp, overlap, handed, migVars, enabled, legacyProv,
                      bitswapEnabled, extendedProvider, docVars>>

\* the enabled and bitswap checks, then last, _, err := w.prov.GetLatestAdv(ctx)
XpGetLatestAdv(latestOk) ==
    /\ procs.pc = "start"
    /\ procs' = IF ~enabled THEN [procs EXCEPT !.pc = "done", !.err = ErrDisabledAll]
                ELSE IF ~bitswapEnabled THEN [procs EXCEPT !.pc = "done"]
                ELSE IF ~latestOk THEN [procs EXCEPT !.pc = "done", !.err = ErrEngine]
                ELSE [procs EXCEPT !.pc = "publish", !.last = LatestAd(ads)]
    /\ UNCHANGED <<ads, annLog>>
    /\ XpOnly

\* adBuilder.WithLastAdID(last), BuildAndSign, then w.prov.Publish(ctx, *ad)
XpPublish(signOk, publishOk) ==
    LET ad == [kind |-> "extended", contextID |-> "", prev |-> procs.last,
               extended |-> extendedProvider]
        published == Publish(ads, ad, publishOk)
    IN /\ procs.pc = "publish"
       /\ procs' = [procs EXCEPT !.pc = "done",
                                 !.err = IF signOk THEN published.err
                                         ELSE <<"signing error">>]
       /\ ads' = IF signOk THEN published.ads ELSE ads
       /\ UNCHANGED annLog
       /\ XpOnly

XpNext ==
    \/ \E latestOk \in BOOLEAN : XpGetLatestAdv(latestOk)
    \/ \E signOk, publishOk \in BOOLEAN : XpPublish(signOk, publishOk)
    \/ \E id \in DealIds, meshOk, putOk \in BOOLEAN :
         AnnBoostDeal([id |-> id, checkpoint |-> IndexedAndAnnounced], meshOk, putOk)
    \/ \E deals \in ActiveDealLists, listOk, meshOk \in BOOLEAN :
         \E putFail \in SUBSET {deals[i].id : i \in 1..Len(deals)} :
            AnnAllDeals(deals, listOk, meshOk, putFail)

XpInit ==
    /\ kv = <<>>
    /\ lastOp = NoOp
    /\ procs = XpIdle
    /\ overlap = FALSE
    /\ handed = <<>>
    /\ marker = FALSE
    /\ mig = <<>>
    /\ cons = <<>>
    /\ resch = <<>>
    /\ pending = {}
    /\ ctxDone = FALSE
    /\ enabled \in BOOLEAN
    /\ legacyProv \in BOOLEAN
    /\ bitswapEnabled \in BOOLEAN
    /\ extendedProvider \in {b \in BOOLEAN : b => bitswapEnabled}
    /\ ads = <<>>
    /\ annLog = [op |-> "none", deals |-> <<>>, res |-> NoAnnounce(<<>>),
                 adsBefore |-> <<>>, before |-> {}, after |-> {}]
    /\ offset = 0
    /\ checked = <<>>
    /\ clock = 0
    /\ batchSize = 1
    /\ docLog = <<>>

SpecXp == XpInit /\ [][XpNext]_vars

\* C34: every advertisement published by AnnounceExtendedProviders has as its
\* previous-advertisement link the engine's latest advertisement at the moment
\* it is published (the CID of the i-th advertisement is i), also when deals are
\* announced between its GetLatestAdv and its Publish.
C34_ExtendedAdLinksToLatest ==
    \A i \in 1..Len(ads) : ads[i].kind = "extended" => ads[i].prev = i - 1

\* with no deal announced between the two steps the link is the latest
C34_LinkedWhenNotInterleaved ==
    \A i \in 1..Len(ads) :
        (ads[i].kind = "extended" /\ ads[i].prev # i - 1) =>
            \E j \in 1..(i - 1) : j > ads[i].prev /\ ads[j].kind = "deal"

-----------------------------------------------------------------------------
\* the call started its consumer and has returned
ReturnedAfterConsumer == Returned /\ mig.via \in {"done", "cancel"}

\* C35: whenever a call that started the consumer returns, through doneCh or
\* through the cancellation, the consumer has left its loop or can leave it
\* without a further result (it has received as many as the total), and no
\* result is owed or waiting on resch.
C35_NoConsumerLeftBehind ==
    ReturnedAfterConsumer =>
        /\ cons.pc = "done"
        /\ pending = {}
        /\ resch = <<>>

\* what holds: a call that returns through doneCh leaves a finished consumer and
\* an empty resch; after a return through the cancellation the consumer is
\* either finished or still in its loop, short of the total, and a finished
\* consumer never leaves a result behind
C35_ConsumerLeftOnlyByCancel ==
    /\ (Returned /\ mig.via = "done") =>
           (cons.pc = "done" /\ pending = {} /\ resch = <<>>)
    /\ (Returned /\ mig.via = "cancel") =>
           \/ cons.pc = "done" /\ cons.rcvd = mig.registered
           \/ cons.pc = "running" /\ cons.rcvd < mig.registered
    /\ cons.pc = "done" => (pending = {} /\ resch = <<>>)

-----------------------------------------------------------------------------
\* the step is the start of the call that follows a call that returned
\* migrated=true
CallAfterMigrated == Returned /\ mig.migrated /\ mig'.calls = mig.calls + 1

\* the new call returns at once, migrated=false, without a RegisterShard call
ReturnsNotMigrated ==
    /\ mig'.pc = "returned"
    /\ ~mig'.migrated
    /\ mig'.offered = <<>>

\* C36 (as stated): when a call returns migrated=true the marker exists, also
\* when writing the marker file failed, and the next call returns migrated=false
\* and registers no shard.
C36_MigratedMeansMarker ==
    [][/\ (Returned' /\ mig'.migrated) => marker'
       /\ CallAfterMigrated => ReturnsNotMigrated]_vars

\* C36 (amended): when a call returns migrated=true the marker exists if the
\* file could be created, and then the next call returns migrated=false and
\* registers no shard; when the creation failed the call has still returned
\* migrated=true, and the next call, finding no marker, starts the registration
\* again (when ListActive and the stat of the marker succeed).
C36_MigratedMeansMarkerIfCreated ==
    [][/\ (Returned' /\ mig'.migrated /\ mig'.createOk) => marker'
       /\ (CallAfterMigrated /\ marker) => ReturnsNotMigrated
       /\ (CallAfterMigrated /\ ~marker) =>
              /\ ~mig.createOk
              /\ (mig'.listOk /\ mig'.statOk) => mig'.pc = "register"]_vars

\* the migration returned migrated=true and the marker could not be created
C36_Witness ==
    /\ Returned
    /\ mig.migrated
    /\ ~mig.createOk
    /\ ~marker
    /\ mig.registered > 0

-----------------------------------------------------------------------------
(* Two goroutines work on the metadata of piece P at the same time: each runs  *)
(* MarkIndexErrored, or reads the metadata, changes another field and writes   *)
(* it back with SetPieceCidToMetadata.  procs holds each goroutine's position, *)
(* the metadata it read and what it returned.                                  *)

\* errors with a message: errors.New("") is left to the sequential specification
NamedErrors == {e \in SourceErrors : e.msg # ""}

RaceIdle ==
    [pc |-> "idle", op |-> "", sourceErr |-> [msg |-> "", type |-> ""],
     md |-> Metadata(0), err |-> Nil, stored |-> FALSE]

RaceOnly == UNCHANGED <<lastOp, overlap, handed, migVars, annVars, docVars>>

\* a goroutine enters MarkIndexErrored(P, sourceErr)
RaceMarkIndexErrored(g, sourceErr) ==
    /\ procs[g].pc = "idle"
    /\ procs' = [procs EXCEPT ![g] = [RaceIdle EXCEPT !.pc = "get", !.op = "MarkIndexErrored",
                                                      !.sourceErr = sourceErr]]
    /\ UNCHANGED kv
    /\ RaceOnly

\* a goroutine starts an update of another field of P's metadata
RaceUpdateMetadata(g) ==
    /\ procs[g].pc = "idle"
    /\ procs' = [procs EXCEPT ![g] = [RaceIdle EXCEPT !.pc = "get", !.op = "Update"]]
    /\ UNCHANGED kv
    /\ RaceOnly

\* db.GetPieceCidToMetadata, and in MarkIndexErrored the test md.Error != ""
RaceGetPieceCidToMetadata(g) ==
    LET got == GetPieceCidToMetadata(kv, "P")
        me == procs[g]
    IN /\ me.pc = "get"
       /\ procs' = [procs EXCEPT ![g] =
              IF got.err # Nil
              THEN [me EXCEPT !.pc = "done",
                              !.err = Wrap("getting piece metadata for piece", got.err)]
              ELSE IF me.op = "MarkIndexErrored" /\ got.md.error # ""
              THEN [me EXCEPT !.pc = "done", !.md = got.md]
              ELSE [me EXCEPT !.pc = "set", !.md = got.md]]
       /\ UNCHANGED kv
       /\ RaceOnly

\* db.SetPieceCidToMetadata of the metadata read before, with the error and
\* its type set (MarkIndexErrored) or with another field changed
RaceSetPieceCidToMetadata(g) ==
    LET me == procs[g]
        md == IF me.op = "MarkIndexErrored"
              THEN [me.md EXCEPT !.error = me.sourceErr.msg, !.errorType = me.sourceErr.type]
              ELSE [me.md EXCEPT !.cursor = me.md.cursor + 1]
    IN /\ me.pc = "set"
       /\ kv' = SetPieceCidToMetadata(kv, "P", md).kv
       /\ procs' = [procs EXCEPT ![g] = [me EXCEPT !.pc = "done",
                                                   !.stored = (me.op = "MarkIndexErrored")]]
       /\ RaceOnly

RaceNext ==
    \/ \E g \in Goroutines, sourceErr \in NamedErrors : RaceMarkIndexErrored(g, sourceErr)
    \/ \E g \in Goroutines : RaceUpdateMetadata(g)
    \/ \E g \in Goroutines : RaceGetPieceCidToMetadata(g)
    \/ \E g \in Goroutines : RaceSetPieceCidToMetadata(g)

RaceInit ==
    /\ kv = SetPieceCidToMetadata(InitCursor(<<>>).kv, "P", Metadata(FirstCursor)).kv
    /\ lastOp = NoOp
    /\ procs = [g \in Goroutines |-> RaceIdle]
    /\ overlap = FALSE
    /\ handed = <<>>
    /\ marker = FALSE
    /\ mig = <<>>
    /\ cons = <<>>
    /\ resch = <<>>
    /\ pending = {}
    /\ ctxDone = FALSE
    /\ enabled = TRUE
    /\ legacyProv = FALSE
    /\ bitswapEnabled = FALSE
    /\ extendedProvider = FALSE
    /\ ads = <<>>
    /\ annLog = <<>>
    /\ offset = 0
    /\ checked = <<>>
    /\ clock = 0
    /\ batchSize = 1
    /\ docLog = <<>>

SpecMetaRace == RaceInit /\ [][RaceNext]_vars

\* the goroutine's MarkIndexErrored has returned success having stored its error
StoredItsError(g) == procs[g].pc = "done" /\ procs[g].stored /\ procs[g].err = Nil

\* C37: once a MarkIndexErrored has returned success having stored its error,
\* the stored error and its type are that error's, whatever the other goroutine
\* (a MarkIndexErrored with another error, or an update of another field) does.
C37_FirstErrorWinsConcurrently ==
    \A g \in Goroutines :
        StoredItsError(g) =>
            /\ kv[KeyMeta("P")].error = procs[g].sourceErr.msg
            /\ kv[KeyMeta("P")].errorType = procs[g].sourceErr.type

-----------------------------------------------------------------------------
(* RemoveIndexes(100, P) in goroutine 1 while goroutine 2 runs                 *)
(* SetMultihashesToPieceCid(recs, Q).  P is indexed at the start: its records  *)
(* are under cursor 100 and it is alone in their inversion sets.               *)

\* the store after P was indexed with recs under cursor 100
RECURSIVE IndexedStore(_, _)
IndexedStore(store, recs) ==
    IF recs = <<>> THEN store
    ELSE IndexedStore(AddIndexRecord(SetMultihashesToPieceCid(store, <<Head(recs)>>, "P").kv,
                                     CursorPrefix(FirstCursor), Head(recs)).kv,
                      Tail(recs))

\* db.Query of the records under the cursor's prefix, and the empty batch
RmQuery(g) ==
    /\ procs[g].pc = "idle"
    /\ procs' = [procs EXCEPT ![g] = [Idle EXCEPT !.pc = "remove", !.piece = "P",
                                                 !.cursor = FirstCursor, !.i = 1,
                                                 !.recs = QueryIdx(kv, CursorPrefix(FirstCursor))]]
    /\ overlap' = (overlap \/ Busy(Other(g)))
    /\ UNCHANGED <<kv, lastOp, handed, migVars, annVars, docVars>>

\* one iteration of the loop over the results: db.Get of the inversion set,
\* batch.Put or batch.Delete of it, batch.Delete of the record
RmIterate(g) ==
    /\ procs[g].pc = "remove"
    /\ procs[g].i <= Len(procs[g].recs)
    /\ procs' = [procs EXCEPT
                    ![g].batch = RemoveIndexStep(kv, procs[g].batch,
                                                 CursorPrefix(procs[g].cursor),
                                                 procs[g].recs[procs[g].i],
                                                 procs[g].piece).batch,
                    ![g].i = procs[g].i + 1]
    /\ UNCHANGED <<kv, lastOp, overlap, handed, migVars, annVars, docVars>>

\* batch.Commit and return nil
RmCommit(g) ==
    /\ procs[g].pc = "remove"
    /\ procs[g].i > Len(procs[g].recs)
    /\ kv' = Commit(kv, procs[g].batch)
    /\ procs' = [procs EXCEPT ![g].pc = "done"]
    /\ UNCHANGED <<lastOp, overlap, handed, migVars, annVars, docVars>>

RmSetNext ==
    \/ RmQuery(1)
    \/ RmIterate(1)
    \/ RmCommit(1)
    \/ \E recs \in RecordLists : SetMhCall(2, recs)
    \/ SetMhIterate(2)
    \/ SetMhCommit(2)

RmSetInit ==
    /\ kv \in {IndexedStore(InitCursor(<<>>).kv, recs) : recs \in RecordLists}
    /\ lastOp = NoOp
    /\ procs = [g \in Goroutines |-> Idle]
    /\ overlap = FALSE
    /\ handed = <<>>
    /\ marker = FALSE
    /\ mig = <<>>
    /\ cons = <<>>
    /\ resch = <<>>
    /\ pending = {}
    /\ ctxDone = FALSE
    /\ enabled = TRUE
    /\ legacyProv = FALSE
    /\ bitswapEnabled = FALSE
    /\ extendedProvider = FALSE
    /\ ads = <<>>
    /\ annLog = <<>>
    /\ offset = 0
    /\ checked = <<>>
    /\ clock = 0
    /\ batchSize = 1
    /\ docLog = <<>>

SpecRmSet == RmSetInit /\ [][RmSetNext]_vars

\* m had a record under P's cursor when RemoveIndexes queried them
RemovedFor(m) == has(procs[1].recs, m)

\* C38 (as stated): when RemoveIndexes for P and SetMultihashesToPieceCid(recs, Q)
\* have both returned success, in any interleaving, the inversion set of every
\* multihash indexed by P and listed in recs is exactly {Q}.
C38_RemovalAndIndexingIndependent ==
    BothReturned =>
        \A m \in Multihashes :
            (RemovedFor(m) /\ InRecs(2, m)) => GetOpt(kv, KeyMh(m)) = << <<"Q">> >>

\* C38 (amended): when both have returned success, every record under P's cursor
\* is deleted, a multihash of P that is not in recs has no inversion key, a
\* multihash of recs that P did not index has the set {Q}, and a multihash of
\* both has the set {Q} when the two calls did not overlap in time; when they
\* overlapped its set is {Q}, or Q was lost with the key deleted, or P stayed in
\* the set with Q.
C38_IndependentWhenSerialized ==
    BothReturned =>
        \A m \in Multihashes :
            /\ RemovedFor(m) => ~Has(kv, KeyIdx(CursorPrefix(FirstCursor), m))
            /\ (RemovedFor(m) /\ ~InRecs(2, m)) => ~Has(kv, KeyMh(m))
            /\ (~RemovedFor(m) /\ InRecs(2, m)) => GetOpt(kv, KeyMh(m)) = << <<"Q">> >>
            /\ (RemovedFor(m) /\ InRecs(2, m) /\ ~overlap) =>
                   GetOpt(kv, KeyMh(m)) = << <<"Q">> >>
            /\ (RemovedFor(m) /\ InRecs(2, m)) =>
                   GetOpt(kv, KeyMh(m)) \in {<< <<"Q">> >>, <<>>, << <<"P", "Q">> >>}

\* Q was indexed for m1 and then, without overlap, P's indexes were removed
C38_Witness ==
    /\ BothReturned
    /\ ~overlap
    /\ RemovedFor("m1") /\ InRecs(2, "m1")
    /\ kv[KeyMh("m1")] = <<"Q">>
    /\ ~Has(kv, KeyIdx(CursorPrefix(FirstCursor), "m1"))

-----------------------------------------------------------------------------
(* safeUnsealSector (cmd/boostx/disaster_recovery.go): a probe goroutine asks  *)
(* the sector accessor while the caller waits on the unbuffered channel done   *)
(* or on time.After(3 * time.Second).  The clock counts seconds since the call.*)

UnsealTimeout == 3    \* time.After(3 * time.Second)

ErrIsUnsealed == <<"IsUnsealed failed">>
ErrUnsealSector == <<"UnsealSector failed">>
ErrUnsealTimeout == <<"timeout on unseal sector after 3 seconds">>

NoReader == "nil"
NoReturn == [reader |-> NoReader, isUnsealed |-> FALSE, err |-> Nil]

\* probe: position of the probe goroutine; reader, isUnsealed, err: the variables
\* it shares with the caller; caller, ret: the caller's position and what it
\* returned; finishedAt: the second at which the probe had the accessor's
\* outcome (-1 while it is still asking); probeAtReturn: where the probe was when
\* the caller returned; calls: calls made so far; blocked: probes of earlier
\* calls still blocked on done
UnsealIdle ==
    [probe |-> "IsUnsealed", reader |-> NoReader, isUnsealed |-> FALSE, err |-> Nil,
     caller |-> "select", ret |-> NoReturn, finishedAt |-> -1,
     probeAtReturn |-> "none", calls |-> 1, blocked |-> 0]

UnsealOnly == UNCHANGED <<kv, lastOp, overlap, handed, marker, mig, cons, resch, pending,
                          ctxDone, enabled, legacyProv, bitswapEnabled, extendedProvider,
                          ads, annLog, offset, checked, batchSize, docLog>>

\* isUnsealed, err = sa.IsUnsealed(...); return on an error or on a sealed sector
ProbeIsUnsealed(unsealed, ok) ==
    /\ procs.probe = "IsUnsealed"
    /\ procs' = [procs EXCEPT
                    !.isUnsealed = (ok /\ unsealed),
                    !.err = IF ok THEN Nil ELSE ErrIsUnsealed,
                    !.probe = IF ok /\ unsealed THEN "UnsealSector" ELSE "exited",
                    !.finishedAt = IF ok /\ unsealed THEN -1 ELSE clock]
    /\ UNCHANGED clock
    /\ UnsealOnly

\* reader, err = sa.UnsealSector(...); return on an error, else go on to the send
ProbeUnsealSector(ok) ==
    /\ procs.probe = "UnsealSector"
    /\ procs' = [procs EXCEPT
                    !.reader = IF ok THEN "reader" ELSE NoReader,
                    !.err = IF ok THEN Nil ELSE ErrUnsealSector,
                    !.probe = IF ok THEN "send" ELSE "exited",
                    !.finishedAt = clock]
    /\ UNCHANGED clock
    /\ UnsealOnly

\* done <- struct{}{} meets case <-done: return reader, isUnsealed, err
ReceiveDone ==
    /\ procs.probe = "send"
    /\ procs.caller = "select"
    /\ procs' = [procs EXCEPT
                    !.probe = "exited",
                    !.caller = "returned",
                    !.probeAtReturn = "send",
                    !.ret = [reader |-> procs.reader, isUnsealed |-> procs.isUnsealed,
                             err |-> procs.err]]
    /\ UNCHANGED clock
    /\ UnsealOnly

\* a second passes while the caller waits in the select
UnsealTick ==
    /\ procs.caller = "select"
    /\ clock < UnsealTimeout
    /\ clock' = clock + 1
    /\ UNCHANGED procs
    /\ UnsealOnly

\* case <-time.After(3 * time.Second): return nil, false, the timeout error
UnsealTimedOut ==
    /\ procs.caller = "select"
    /\ clock = UnsealTimeout
    /\ procs' = [procs EXCEPT
                    !.caller = "returned",
                    !.probeAtReturn = procs.probe,
                    !.ret = [reader |-> NoReader, isUnsealed |-> FALSE,
                             err |-> ErrUnsealTimeout]]
    /\ UNCHANGED clock
    /\ UnsealOnly

\* the next sector: a new call with new variables, channel and probe; a probe
\* of the call before that has not exited stays behind
safeUnsealSector ==
    /\ procs.caller = "returned"
    /\ procs.calls < MaxCalls
    /\ procs.probe \in {"send", "exited"}
    /\ procs' = [UnsealIdle EXCEPT
                    !.calls = procs.calls + 1,
                    !.blocked = procs.blocked + (IF procs.probe = "send" THEN 1 ELSE 0)]
    /\ clock' = 0
    /\ UnsealOnly

UnsealNext ==
    \/ \E unsealed \in BOOLEAN, ok \in BOOLEAN : ProbeIsUnsealed(unsealed, ok)
    \/ \E ok \in BOOLEAN : ProbeUnsealSector(ok)
    \/ ReceiveDone
    \/ UnsealTick
    \/ UnsealTimedOut
    \/ safeUnsealSector

UnsealInit ==
    /\ kv = InitCursor(<<>>).kv
    /\ lastOp = NoOp
    /\ procs = UnsealIdle
    /\ overlap = FALSE
    /\ handed = <<>>
    /\ marker = FALSE
    /\ mig = <<>>
    /\ cons = <<>>
    /\ resch = <<>>
    /\ pending = {}
    /\ ctxDone = FALSE
    /\ enabled = TRUE
    /\ legacyProv = FALSE
    /\ bitswapEnabled = FALSE
    /\ extendedProvider = FALSE
    /\ ads = <<>>
    /\ annLog = <<>>
    /\ offset = 0
    /\ checked = <<>>
    /\ clock = 0
    /\ batchSize = 1
    /\ docLog = <<>>

SpecUnseal == UnsealInit /\ [][UnsealNext]_vars

\* the probe had the accessor's outcome before the timer fired
FinishedBeforeTimeout == procs.finishedAt >= 0 /\ procs.finishedAt < UnsealTimeout

\* what the accessor reported to the probe
RealOutcome == [reader |-> procs.reader, isUnsealed |-> procs.isUnsealed, err |-> procs.err]

\* C39 (as stated): a call that returns after the probe had the accessor's outcome
\* before the 3-second timeout returns that outcome (the IsUnsealed or
\* UnsealSector error, or no reader and isUnsealed = false for a sealed sector, or
\* the reader); the timeout error is returned only if the probe was still asking
\* the accessor when the timer fired; and no probe is left blocked on done once
\* the call has returned.
C39_ReportsRealOutcome ==
    procs.caller = "returned" =>
        /\ FinishedBeforeTimeout => procs.ret = RealOutcome
        /\ procs.ret.err = ErrUnsealTimeout =>
               procs.probeAtReturn \in {"IsUnsealed", "UnsealSector"}
        /\ procs.probe # "send"
        /\ procs.blocked = 0

\* what does hold: a call that does not return the timeout error returns the
\* reader of a successful unseal, and a probe that exited on an error or on a
\* sealed sector makes the call return the timeout error
C39_OnlySuccessIsReported ==
    procs.caller = "returned" =>
        /\ procs.ret.err # ErrUnsealTimeout =>
               procs.ret = [reader |-> "reader", isUnsealed |-> TRUE, err |-> Nil]
        /\ (procs.probeAtReturn = "exited") => procs.ret.err = ErrUnsealTimeout

-----------------------------------------------------------------------------
(* gatewayHandler.ServeHTTP (cmd/booster-http/gateway_handler.go): the format  *)
(* check, and with a payment client the voucher check, in front of the wrapped *)
(* gateway handler.                                                            *)

StatusBadRequest == 400        \* http.StatusBadRequest
StatusPaymentRequired == 402   \* http.StatusPaymentRequired
expectedPayment == 5           \* const expectedPayment = int64(5)

FormatParams == {"", "car", "zip"}
AcceptValues == {"text/html", "application/vnd.ipld.raw", "application/cbor; ="}
AcceptHeaders == {<<>>} \cup {<<a>> : a \in AcceptValues}
                        \cup {<<a, b>> : a \in {"text/html"}, b \in AcceptValues}
SupportedFormatSets == {{"", "application/vnd.ipld.car", "application/vnd.ipld.raw"},
                        {"application/vnd.ipld.car"}}
\* the signature parameter: absent, 0x-prefixed hex, or anything else
Signatures == {"absent", "0x1b", "zz"}
\* the delta of ReceiveVoucher: nil for a voucher the client rejects
NilDelta == -1
Deltas == {NilDelta, 0, 4, 5, 6}

Requests ==
    [format : FormatParams, accept : AcceptHeaders, channelId : BOOLEAN,
     amount : BOOLEAN, signature : Signatures]

\* the vendor-specific content types the Accept header is searched for
SpecialCased(accept) == accept # "text/html"

\* mime.ParseMediaType of the Accept values above
ParseMediaType(accept) ==
    IF accept = "application/cbor; =" THEN [mediaType |-> "", err |-> <<"mime: invalid media parameter">>]
    ELSE [mediaType |-> accept, err |-> Nil]

RECURSIVE FirstSpecialCased(_)
FirstSpecialCased(accept) ==
    IF accept = <<>> THEN [mediaType |-> "", err |-> Nil]
    ELSE IF SpecialCased(Head(accept)) THEN ParseMediaType(Head(accept))
    ELSE FirstSpecialCased(Tail(accept))

customResponseFormat(r) ==
    IF r.format = "car" THEN [mediaType |-> "application/vnd.ipld.car", err |-> Nil]
    ELSE FirstSpecialCased(r.accept)

\* parseVoucher: an error for a missing parameter; hexutil.MustDecode panics on a
\* signature that is not 0x-prefixed hex
parseVoucher(r) ==
    IF ~r.channelId THEN [err |-> <<"a valid channel id must be provided">>, panic |-> FALSE]
    ELSE IF ~r.amount THEN [err |-> <<"a valid amount must be provided">>, panic |-> FALSE]
    ELSE IF r.signature = "absent"
         THEN [err |-> <<"a valid signature must be provided">>, panic |-> FALSE]
    ELSE [err |-> Nil, panic |-> (r.signature # "0x1b")]

\* status: the code webError wrote, 0 when it wrote none; served: the wrapped
\* handler was invoked; redeemed: ReceiveVoucher was called; panicked: the
\* handler panicked
Outcome(status, served, redeemed, panicked) ==
    [status |-> status, served |-> served, redeemed |-> redeemed, panicked |-> panicked]

ServeHTTP(supportedFormats, nitro, r, delta) ==
    LET f == customResponseFormat(r)
        v == parseVoucher(r)
    IN  IF f.err # Nil THEN Outcome(StatusBadRequest, FALSE, FALSE, FALSE)
        ELSE IF f.mediaType \notin supportedFormats
             THEN Outcome(StatusBadRequest, FALSE, FALSE, FALSE)
        ELSE IF ~nitro THEN Outcome(0, TRUE, FALSE, FALSE)
        ELSE IF v.panic THEN Outcome(0, FALSE, FALSE, TRUE)
        ELSE IF v.err # Nil THEN Outcome(StatusBadRequest, FALSE, FALSE, FALSE)
        ELSE IF delta = NilDelta THEN Outcome(StatusBadRequest, FALSE, TRUE, FALSE)
        ELSE IF delta < expectedPayment THEN Outcome(StatusPaymentRequired, FALSE, TRUE, FALSE)
        ELSE Outcome(0, TRUE, TRUE, FALSE)

NoRequest == [format |-> "", accept |-> <<>>, channelId |-> FALSE, amount |-> FALSE,
              signature |-> "absent"]

GwOnly == UNCHANGED <<kv, lastOp, overlap, handed, migVars, annVars, docVars>>

\* one request; delta is what ReceiveVoucher answers if it is called
GwServeHTTP(r, delta) ==
    /\ procs' = [procs EXCEPT !.handled = TRUE, !.r = r, !.delta = delta,
                               !.out = ServeHTTP(procs.supportedFormats, procs.nitro, r, delta)]
    /\ GwOnly

GwNext ==
    \E r \in Requests, delta \in Deltas : GwServeHTTP(r, delta)

GwInit ==
    /\ kv = InitCursor(<<>>).kv
    /\ lastOp = NoOp
    /\ procs \in [supportedFormats : SupportedFormatSets, nitro : BOOLEAN, handled : {FALSE},
                   r : {NoRequest}, delta : {NilDelta}, out : {Outcome(0, FALSE, FALSE, FALSE)}]
    /\ overlap = FALSE
    /\ handed = <<>>
    /\ marker = FALSE
    /\ mig = <<>>
    /\ cons = <<>>
    /\ resch = <<>>
    /\ pending = {}
    /\ ctxDone = FALSE
    /\ enabled = TRUE
    /\ legacyProv = FALSE
    /\ bitswapEnabled = FALSE
    /\ extendedProvider = FALSE
    /\ ads = <<>>
    /\ annLog = <<>>
    /\ offset = 0
    /\ checked = <<>>
    /\ clock = 0
    /\ batchSize = 1
    /\ docLog = <<>>

SpecGw == GwInit /\ [][GwNext]_vars

FormatSupported(r) ==
    /\ customResponseFormat(r).err = Nil
    /\ customResponseFormat(r).mediaType \in procs.supportedFormats

\* the three parameters are present, so that parseVoucher builds the voucher
VoucherGiven(r) == r.channelId /\ r.amount /\ r.signature # "absent"

\* format supported, voucher parsed, ReceiveVoucher accepted it, delta >= 5
Paid(r, delta) ==
    /\ FormatSupported(r)
    /\ parseVoucher(r).err = Nil /\ ~parseVoucher(r).panic
    /\ delta # NilDelta
    /\ delta >= expectedPayment

\* C40 (as stated): with a payment client the wrapped handler is invoked only for
\* a request whose format is supported, whose voucher parsed, whose voucher
\* ReceiveVoucher accepted and whose delta is at least 5; in every other case it
\* is not invoked and an error status is returned; a request rejected for its
\* format never has its voucher redeemed.
C40_ServesOnlyPaidElseErrorStatus ==
    (procs.handled /\ procs.nitro) =>
        /\ procs.out.served <=> Paid(procs.r, procs.delta)
        /\ ~procs.out.served => procs.out.status \in {StatusBadRequest, StatusPaymentRequired}
        /\ ~FormatSupported(procs.r) => ~procs.out.redeemed

\* what does hold: the same, except that for a request with a supported format
\* and a signature parameter that is not 0x-prefixed hex the handler panics in
\* parseVoucher and writes no status
C40_ServesOnlyPaidElseErrorOrPanic ==
    (procs.handled /\ procs.nitro) =>
        /\ procs.out.served <=> Paid(procs.r, procs.delta)
        /\ ~procs.out.served =>
               IF FormatSupported(procs.r) /\ VoucherGiven(procs.r) /\ procs.r.signature = "zz"
               THEN procs.out.panicked /\ procs.out.status = 0
               ELSE procs.out.status \in {StatusBadRequest, StatusPaymentRequired}
        /\ ~FormatSupported(procs.r) => ~procs.out.redeemed
        /\ procs.out.redeemed <=>
               (FormatSupported(procs.r) /\ parseVoucher(procs.r).err = Nil
                    /\ ~parseVoucher(procs.r).panic)

=============================================================================
